---- MODULE Spec2Model ----
(***************************************************************************)
(* The authentication gateway of CineSync's WebDavHub                      *)
(* (WebDavHub/pkg/auth/auth.go): credential validation, token issue and    *)
(* verification, the public-path classifier, the Bearer and Basic          *)
(* gateways and the login / auth-check / me endpoints.                     *)
(*                                                                         *)
(* Strings that the code compares byte by byte (usernames, passwords) are  *)
(* sequences of byte values; request paths are sequences of one-character  *)
(* strings.  Time is counted in ticks, TicksPerSecond ticks to the second, *)
(* so that the truncation of JWT NumericDate values to whole seconds is    *)
(* visible.                                                                *)
(***************************************************************************)
EXTENDS Integers, Sequences, FiniteSets, TLC

VARIABLES
    now,        \* the wall clock (time.Now()), in ticks
    envAuth,    \* the value of CINESYNC_AUTH_ENABLED ("" when unset)
    envUser,    \* the value of CINESYNC_USERNAME (<<>> when unset)
    envPass,    \* the value of CINESYNC_PASSWORD (<<>> when unset)
    jwtSecret,  \* the package-level signing key, read once from JWT_SECRET
    held,       \* the token the client got from its latest successful login
    last,       \* the HTTP exchange being answered: request and response
    prev,       \* the exchange answered before, at the same clock reading,
                \* kept where two exchanges are compared
    \* The state of the DatabaseSearch component of the dashboard
    records,               \* the records displayed (their file_path)
    selectedFiles,         \* the file paths selected for the bulk action
    loading,               \* a fetch of records set it; its completion clears it
    error,                 \* the error message, Null when there is none
    bulkActionLoading,     \* a confirmed bulk delete is running
    bulkActionDialogOpen,  \* the confirmation dialog is open
    fetches,               \* the GET /api/database/search requests in flight
    searchTimer,           \* the 300 ms timer of the search/filter effect is pending
    bulkDelete             \* where handleBulkActionConfirm is, what it captured
                           \* when it was called and what the server did

authVars == <<now, envAuth, envUser, envPass, jwtSecret, held, last, prev>>

dbVars == <<records, selectedFiles, loading, error, bulkActionLoading,
            bulkActionDialogOpen, fetches, searchTimer, bulkDelete>>

vars == <<authVars, dbVars>>

----------------------------------------------------------------------------
(* Bounds of the model *)

\* Resolution of the modelled clock.
TicksPerSecond == 2

\* The clock is sampled in the first Window ticks after the process starts
\* and from Window ticks before to Window ticks after the 24h boundary.
Window == 1

----------------------------------------------------------------------------
(* Time *)

Second == TicksPerSecond
Hour == 3600 * Second

\* 24 * time.Hour, the lifetime GenerateJWT gives a token
TokenTTL == 24 * Hour

Instants == (0 .. Window) \cup ((TokenTTL - Window) .. (TokenTTL + Second + Window))

\* jwt.NewNumericDate: the time truncated to jwt.TimePrecision (one second)
NewNumericDate(t) == (t \div Second) * Second

----------------------------------------------------------------------------
(* Byte strings *)

STR_admin == <<97, 100, 109, 105, 110>>      \* "admin"
STR_Admin == <<65, 100, 109, 105, 110>>      \* "Admin"
STR_adm   == <<97, 100, 109>>                \* "adm"
STR_admin1 == <<97, 100, 109, 105, 110, 49>> \* "admin1"
STR_root  == <<114, 111, 111, 116>>          \* "root"
STR_toor  == <<116, 111, 111, 114>>          \* "toor"
STR_bad   == <<97, 255>>                     \* "a\xff": not valid UTF-8
STR_fffd  == <<97, 239, 191, 189>>           \* "a" followed by U+FFFD
STR_eacute == <<114, 195, 169>>              \* "ré"

RECURSIVE BitXor(_, _)
BitXor(a, b) ==
    IF a = 0 THEN b
    ELSE IF b = 0 THEN a
    ELSE (((a % 2) + (b % 2)) % 2) + 2 * BitXor(a \div 2, b \div 2)

RECURSIVE BitOr(_, _)
BitOr(a, b) ==
    IF a = 0 THEN b
    ELSE IF b = 0 THEN a
    ELSE (IF a % 2 = 1 \/ b % 2 = 1 THEN 1 ELSE 0) + 2 * BitOr(a \div 2, b \div 2)

\* The loop of subtle.ConstantTimeCompare: v |= x[i] ^ y[i] over all i
RECURSIVE XorAccumulate(_, _, _, _)
XorAccumulate(x, y, i, v) ==
    IF i > Len(x) THEN v
    ELSE XorAccumulate(x, y, i + 1, BitOr(v, BitXor(x[i], y[i])))

\* A plausible slip: the comparison stops at the shorter operand (prefix match).
ConstantTimeComparePrefix(x, y) ==
    LET n == IF Len(x) < Len(y) THEN Len(x) ELSE Len(y)
    IN IF XorAccumulate(SubSeq(x, 1, n), SubSeq(y, 1, n), 1, 0) = 0 THEN 1 ELSE 0

\* crypto/subtle.ConstantTimeCompare: 1 when x and y have equal contents, else 0
ConstantTimeCompare(x, y) ==
    IF Len(x) # Len(y) THEN 0
    ELSE IF XorAccumulate(x, y, 1, 0) = 0 THEN 1 ELSE 0

\* The bytes of the UTF-8 encoding of U+FFFD
RuneError == <<239, 191, 189>>

IsCont(b) == b >= 128 /\ b <= 191

\* utf8.DecodeRune at s[i]: the length of the well-formed UTF-8 sequence that
\* starts there, 0 when there is none
RuneLen(s, i) ==
    LET b == s[i]
        left == Len(s) - i + 1
        size == IF b < 128 THEN 1
                ELSE IF b >= 194 /\ b <= 223 THEN 2
                ELSE IF b >= 224 /\ b <= 239 THEN 3
                ELSE IF b >= 240 /\ b <= 244 THEN 4
                ELSE 0
        lo == IF b = 224 THEN 160 ELSE IF b = 240 THEN 144 ELSE 128
        hi == IF b = 237 THEN 159 ELSE IF b = 244 THEN 143 ELSE 191
    IN IF size = 0 \/ left < size THEN 0
       ELSE IF size = 1 THEN 1
       ELSE IF s[i + 1] < lo \/ s[i + 1] > hi THEN 0
       ELSE IF size >= 3 /\ ~IsCont(s[i + 2]) THEN 0
       ELSE IF size = 4 /\ ~IsCont(s[i + 3]) THEN 0
       ELSE size

\* encoding/json on a Go string, followed by decoding: every byte that starts
\* no well-formed UTF-8 sequence becomes U+FFFD, everything else is kept
RECURSIVE JSONString(_, _)
JSONString(s, i) ==
    IF i > Len(s) THEN <<>>
    ELSE LET n == RuneLen(s, i)
         IN IF n = 0 THEN RuneError \o JSONString(s, i + 1)
            ELSE SubSeq(s, i, i + n - 1) \o JSONString(s, i + n)

----------------------------------------------------------------------------
(* Configuration *)

\* env.GetString(key, default): the variable's value, the default when unset
env_GetString(value, default) == IF value = <<>> THEN default ELSE value

GetCredentials ==
    [Username |-> env_GetString(envUser, STR_admin),
     Password |-> env_GetString(envPass, STR_admin)]

validateCredentials(username, password) ==
    LET credentials == GetCredentials
    IN ConstantTimeCompare(username, credentials.Username) = 1
       /\ ConstantTimeCompare(password, credentials.Password) = 1

\* The passes of the loop of subtle.ConstantTimeCompare(x, y): none when the
\* lengths differ, one for every byte otherwise
ConstantTimeCompareLoop(x, y) == IF Len(x) # Len(y) THEN 0 ELSE Len(x)

\* The comparisons a call of validateCredentials runs, in order, each with
\* the passes of its loop: && evaluates its right operand only when the left
\* one is true
validateCredentialsWork(username, password) ==
    LET credentials == GetCredentials
        usernameMatch == ConstantTimeCompare(username, credentials.Username) = 1
    IN <<[field |-> "username",
          loop |-> ConstantTimeCompareLoop(username, credentials.Username)]>>
       \o (IF usernameMatch
           THEN <<[field |-> "password",
                   loop |-> ConstantTimeCompareLoop(password, credentials.Password)]>>
           ELSE <<>>)

----------------------------------------------------------------------------
(* Public paths *)

authEndpoints ==
    <<
       <<"/","a","p","i","/","h","e","a","l","t","h">>,
       <<"/","a","p","i","/","a","u","t","h","/","e","n","a","b","l","e","d">>,
       <<"/","a","p","i","/","a","u","t","h","/","t","e","s","t">>,
       <<"/","a","p","i","/","a","u","t","h","/","l","o","g","i","n">>,
       <<"/","a","p","i","/","a","u","t","h","/","c","h","e","c","k">>,
       <<"/","a","p","i","/","d","o","w","n","l","o","a","d">>,
       <<"/","a","p","i","/","c","o","n","f","i","g","-","s","t","a","t","u","s">>,
       <<"/","a","p","i","/","c","o","n","f","i","g">>,
       <<"/","a","p","i","/","c","o","n","f","i","g","/","u","p","d","a","t","e">>,
       <<"/","a","p","i","/","c","o","n","f","i","g","/","u","p","d","a","t","e","-","s","i","l","e","n","t">>,
       <<"/","a","p","i","/","c","o","n","f","i","g","/","e","v","e","n","t","s">>,
       <<"/","a","p","i","/","m","e","d","i","a","h","u","b","/","m","e","s","s","a","g","e">>,
       <<"/","a","p","i","/","m","e","d","i","a","h","u","b","/","e","v","e","n","t","s">>,
       <<"/","a","p","i","/","m","e","d","i","a","h","u","b","/","l","o","g","s">>,
       <<"/","a","p","i","/","m","e","d","i","a","h","u","b","/","l","o","g","s","/","e","x","p","o","r","t">>,
       <<"/","a","p","i","/","f","i","l","e","-","o","p","e","r","a","t","i","o","n","s">>,
       <<"/","a","p","i","/","f","i","l","e","-","o","p","e","r","a","t","i","o","n","s","/","b","u","l","k">>,
       <<"/","a","p","i","/","f","i","l","e","-","o","p","e","r","a","t","i","o","n","s","/","e","v","e","n","t","s">>,
       <<"/","a","p","i","/","s","o","u","r","c","e","-","b","r","o","w","s","e">>,
       <<"/","a","p","i","/","d","a","t","a","b","a","s","e","/","s","o","u","r","c","e","-","f","i","l","e","s">>,
       <<"/","a","p","i","/","d","a","t","a","b","a","s","e","/","s","o","u","r","c","e","-","s","c","a","n","s">>,
       <<"/","a","p","i","/","d","a","s","h","b","o","a","r","d","/","e","v","e","n","t","s">>,
       <<"/","a","p","i","/","d","a","t","a","b","a","s","e","/","s","t","a","t","s">>,
       <<"/","a","p","i","/","d","a","t","a","b","a","s","e","/","s","e","a","r","c","h">>,
       <<"/","a","p","i","/","d","a","t","a","b","a","s","e","/","e","x","p","o","r","t">>,
       <<"/","a","p","i","/","s","t","a","t","s">>,
       <<"/","a","p","i","/","j","o","b","s">>,
       <<"/","a","p","i","/","p","y","t","h","o","n","-","b","r","i","d","g","e","/","t","e","r","m","i","n","a","t","e">>,
       <<"/","a","p","i","/","v","3","/","s","y","s","t","e","m","/","s","t","a","t","u","s">>,
       <<"/","a","p","i","/","s","y","s","t","e","m","/","s","t","a","t","u","s">>,
       <<"/","a","p","i","/","v","3","/","h","e","a","l","t","h">>,
       <<"/","a","p","i","/","v","3","/","r","o","o","t","f","o","l","d","e","r">>,
       <<"/","a","p","i","/","v","3","/","q","u","a","l","i","t","y","p","r","o","f","i","l","e">>,
       <<"/","a","p","i","/","v","3","/","l","a","n","g","u","a","g","e">>,
       <<"/","a","p","i","/","v","3","/","l","a","n","g","u","a","g","e","p","r","o","f","i","l","e">>,
       <<"/","a","p","i","/","v","3","/","t","a","g">>,
       <<"/","a","p","i","/","v","3","/","m","o","v","i","e">>,
       <<"/","a","p","i","/","v","3","/","m","o","v","i","e","f","i","l","e">>,
       <<"/","a","p","i","/","v","3","/","s","e","r","i","e","s">>,
       <<"/","a","p","i","/","v","3","/","e","p","i","s","o","d","e">>,
       <<"/","a","p","i","/","v","3","/","e","p","i","s","o","d","e","f","i","l","e">>,
       <<"/","a","p","i","/","v","3","/","i","m","a","g","e","s","/","m","o","v","i","e","s","/","M","e","d","i","a","C","o","v","e","r">>,
       <<"/","a","p","i","/","v","3","/","i","m","a","g","e","s","/","s","e","r","i","e","s","/","M","e","d","i","a","C","o","v","e","r">>,
       <<"/","a","p","i","/","s","p","o","o","f","i","n","g","/","c","o","n","f","i","g">>,
       <<"/","a","p","i","/","s","p","o","o","f","i","n","g","/","s","w","i","t","c","h">>,
       <<"/","a","p","i","/","s","p","o","o","f","i","n","g","/","r","e","g","e","n","e","r","a","t","e","-","k","e","y">>,
       <<"/","i","m","a","g","e","s","/","m","o","v","i","e","s","/","M","e","d","i","a","C","o","v","e","r">>,
       <<"/","i","m","a","g","e","s","/","s","e","r","i","e","s","/","M","e","d","i","a","C","o","v","e","r">>,
       <<"/","M","e","d","i","a","C","o","v","e","r">>,
       <<"/","a","p","i">>
    >>

HasPrefix(s, prefix) ==
    Len(s) >= Len(prefix) /\ SubSeq(s, 1, Len(prefix)) = prefix

\* A plausible slip: a listed endpoint matches as a bare string prefix.
isAuthEndpointNoBoundary(path) ==
    \E k \in 1 .. Len(authEndpoints) : HasPrefix(path, authEndpoints[k])

\* A plausible slip: a listed endpoint matches only the path equal to it.
isAuthEndpointExact(path) ==
    \E k \in 1 .. Len(authEndpoints) : path = authEndpoints[k]

isAuthEndpoint(path) ==
    \E k \in 1 .. Len(authEndpoints) :
        \/ path = authEndpoints[k]
        \/ HasPrefix(path, authEndpoints[k] \o <<"/">>)

StaticPrefix == <<"/","s","t","a","t","i","c","/">>

\* The test of JWTMiddleware for "public endpoints"
isPublic(path) == isAuthEndpoint(path) \/ HasPrefix(path, StaticPrefix)

----------------------------------------------------------------------------
(* Tokens *)

\* JWTClaims as GenerateJWT fills it: Username, IssuedAt, ExpiresAt
Claims(username, iat, exp) == [username |-> username, iat |-> iat, exp |-> exp]

NoClaims == Claims(<<>>, 0, 0)

\* HMAC-SHA256 as an ideal MAC: two MACs are equal exactly when the key and
\* the signed content are; cut = 1 marks a signature that lost characters.
HS256(key, claims) == [key |-> key, over |-> claims, cut |-> 0]

NoSig == [key |-> "", over |-> NoClaims, cut |-> 1]

\* The empty string, where a token string is expected
EmptyStr == [kind |-> "empty", claims |-> NoClaims, sig |-> NoSig]

\* A non-empty string that is no JWT
Garbage == [kind |-> "garbage", claims |-> NoClaims, sig |-> NoSig]

\* token.SignedString(key) of jwt.NewWithClaims(jwt.SigningMethodHS256, claims)
SignedString(claims, key) ==
    [kind |-> "jwt", claims |-> claims, sig |-> HS256(key, claims)]

\* A plausible slip: the token is signed with a key of its own.
GenerateJWTOtherKey(username, t1, t2) ==
    [token |-> SignedString(Claims(JSONString(username, 1),
                                   NewNumericDate(t2),
                                   NewNumericDate(t1 + TokenTTL)), "signing-key"),
     err |-> FALSE]

\* GenerateJWT(username): t1 is the clock read for ExpiresAt, t2 >= t1 the
\* clock read for IssuedAt.  Signing with an HMAC key of type []byte does not
\* fail.
GenerateJWT(username, t1, t2) ==
    [token |-> SignedString(Claims(JSONString(username, 1),
                                   NewNumericDate(t2),
                                   NewNumericDate(t1 + TokenTTL)), jwtSecret),
     err |-> FALSE]

ParseError(err) == [Valid |-> FALSE, err |-> err, Claims |-> NoClaims]

\* A plausible slip: the signature is not checked.
ParseWithClaimsNoSignature(tokenStr, key, t) ==
    IF tokenStr.kind # "jwt" THEN ParseError("token is malformed")
    ELSE IF ~(t < tokenStr.claims.exp) THEN ParseError("token is expired")
    ELSE [Valid |-> TRUE, err |-> "", Claims |-> tokenStr.claims]

\* A plausible slip: the token is still accepted at the instant it expires.
ParseWithClaimsInclusive(tokenStr, key, t) ==
    IF tokenStr.kind # "jwt" THEN ParseError("token is malformed")
    ELSE IF tokenStr.sig # HS256(key, tokenStr.claims)
         THEN ParseError("token signature is invalid")
    ELSE IF ~(t <= tokenStr.claims.exp) THEN ParseError("token is expired")
    ELSE [Valid |-> TRUE, err |-> "", Claims |-> tokenStr.claims]

\* jwt.ParseWithClaims(tokenStr, &JWTClaims{}, keyfunc) at time t, keyfunc
\* returning key: the string is parsed, the signature is verified, then the
\* claims are validated (exp: valid while t is before it; iat: not checked).
ParseWithClaims(tokenStr, key, t) ==
    IF tokenStr.kind # "jwt" THEN ParseError("token is malformed")
    ELSE IF tokenStr.sig # HS256(key, tokenStr.claims)
         THEN ParseError("token signature is invalid")
    ELSE IF ~(t < tokenStr.claims.exp) THEN ParseError("token is expired")
    ELSE [Valid |-> TRUE, err |-> "", Claims |-> tokenStr.claims]

----------------------------------------------------------------------------
(* Requests *)

\* The Authorization header.  scheme is the text up to and including the
\* first space ("" when the header is absent); tok is what follows "Bearer ";
\* ok, user, pass describe what follows "Basic ": whether it is base64 of
\* "user:pass", and the two parts.
NoHeader == [scheme |-> "", tok |-> EmptyStr, ok |-> FALSE, user |-> <<>>, pass |-> <<>>]

BearerHeader(scheme, tok) == [NoHeader EXCEPT !.scheme = scheme, !.tok = tok]

BasicHeader(scheme, user, pass) ==
    [NoHeader EXCEPT !.scheme = scheme, !.ok = TRUE, !.user = user, !.pass = pass]

\* "Basic " followed by text that is not base64 of "user:pass"
BasicGarbage == [NoHeader EXCEPT !.scheme = "Basic "]

NoBody == [ok |-> FALSE, Username |-> <<>>, Password |-> <<>>]

\* A body that decodes as JSON into Credentials
JSONBody(username, password) == [ok |-> TRUE, Username |-> username, Password |-> password]

Request(method, path, auth, query, body) ==
    [method |-> method, path |-> path, auth |-> auth, query |-> query,
     body |-> body, remote |-> "192.0.2.7:51234"]

NoRequest == Request("", <<>>, NoHeader, EmptyStr, NoBody)

\* strings.HasPrefix(header, "Bearer ")
HasBearerPrefix(header) == header.scheme = "Bearer "

\* r.BasicAuth(): the scheme is matched without regard to case
BasicAuth(r) ==
    IF r.auth.scheme \in {"Basic ", "basic ", "BASIC "} /\ r.auth.ok
    THEN [username |-> r.auth.user, password |-> r.auth.pass, ok |-> TRUE]
    ELSE [username |-> <<>>, password |-> <<>>, ok |-> FALSE]

----------------------------------------------------------------------------
(* Responses *)

StatusOK == 200
StatusBadRequest == 400
StatusUnauthorized == 401
StatusMethodNotAllowed == 405
StatusInternalServerError == 500

\* What a handler did: next counts the calls of next.ServeHTTP, status is the
\* status the handler itself wrote (0: it wrote none), parses counts the calls
\* of jwt.ParseWithClaims, log holds the entries given to the logger; ret is
\* the value of a function that was called directly and work the comparisons
\* it ran.
NoResp ==
    [next |-> 0, status |-> 0, text |-> "", ctype |-> "", challenge |-> "",
     token |-> EmptyStr, username |-> <<>>, isAuthenticated |-> FALSE,
     authEnabled |-> FALSE, ret |-> FALSE, parses |-> 0, log |-> <<>>,
     work |-> <<>>]

\* next.ServeHTTP(w, r)
Forward == [NoResp EXCEPT !.next = 1]

\* http.Error(w, text, code)
HttpError(text, code) ==
    [NoResp EXCEPT !.status = code, !.text = text,
                   !.ctype = "text/plain; charset=utf-8"]

LogEntry(level, format, path, user, remote, err) ==
    [level |-> level, format |-> format, path |-> path, user |-> user,
     remote |-> remote, err |-> err]

----------------------------------------------------------------------------
(* Handlers *)

\* The reading of CINESYNC_AUTH_ENABLED in JWTMiddleware
JWTAuthEnabled(v) == ~(v = "false" \/ v = "0")

\* env.IsBool(key, default): the values it may return for a variable's value
env_IsBool(value, default) ==
    IF value = "" THEN {default}
    ELSE IF value = "true" THEN {TRUE}
    ELSE IF value = "false" THEN {FALSE}
    ELSE BOOLEAN

\* A plausible slip: the query parameter is not consulted.
ExtractTokenHeaderOnly(r) ==
    IF HasBearerPrefix(r.auth) THEN r.auth.tok ELSE EmptyStr

\* A plausible slip: the query parameter is preferred to the header.
ExtractTokenQueryFirst(r) ==
    IF r.query # EmptyStr THEN r.query
    ELSE IF HasBearerPrefix(r.auth) THEN r.auth.tok
    ELSE EmptyStr

\* The token string JWTMiddleware takes from the request
ExtractToken(r) ==
    IF HasBearerPrefix(r.auth) THEN r.auth.tok
    ELSE IF r.query # EmptyStr THEN r.query
    ELSE EmptyStr

\* A plausible slip: any non-empty token string is let through.
JWTMiddlewareServeUnverified(r) ==
    IF isPublic(r.path) THEN Forward
    ELSE IF ~JWTAuthEnabled(envAuth) THEN Forward
    ELSE IF ExtractToken(r) = EmptyStr
         THEN HttpError("Missing or invalid Authorization header or token parameter",
                        StatusUnauthorized)
    ELSE [Forward EXCEPT !.parses = 1]

\* A plausible slip: the flag is read before the public-path test, and a
\* public path is checked like any other when auth is enabled.
JWTMiddlewareServeNoPublic(r) ==
    IF ~JWTAuthEnabled(envAuth) THEN Forward
    ELSE IF ExtractToken(r) = EmptyStr
         THEN HttpError("Missing or invalid Authorization header or token parameter",
                        StatusUnauthorized)
    ELSE LET token == ParseWithClaims(ExtractToken(r), jwtSecret, now)
         IN IF token.err # "" \/ ~token.Valid
            THEN [HttpError("Invalid or expired token", StatusUnauthorized)
                     EXCEPT !.parses = 1]
            ELSE [Forward EXCEPT !.parses = 1]

\* A plausible slip: the flag is not consulted.
JWTMiddlewareServeNoFlag(r) ==
    IF isPublic(r.path) THEN Forward
    ELSE IF ExtractToken(r) = EmptyStr
         THEN HttpError("Missing or invalid Authorization header or token parameter",
                        StatusUnauthorized)
    ELSE LET token == ParseWithClaims(ExtractToken(r), jwtSecret, now)
         IN IF token.err # "" \/ ~token.Valid
            THEN [HttpError("Invalid or expired token", StatusUnauthorized)
                     EXCEPT !.parses = 1]
            ELSE [Forward EXCEPT !.parses = 1]

\* A plausible slip: the error of the verification is sent to the client.
JWTMiddlewareServeLeaky(r) ==
    IF isPublic(r.path) THEN Forward
    ELSE IF ~JWTAuthEnabled(envAuth) THEN Forward
    ELSE IF ExtractToken(r) = EmptyStr
         THEN HttpError("Missing or invalid Authorization header or token parameter",
                        StatusUnauthorized)
    ELSE LET token == ParseWithClaims(ExtractToken(r), jwtSecret, now)
         IN IF token.err # "" \/ ~token.Valid
            THEN [HttpError(token.err, StatusUnauthorized) EXCEPT !.parses = 1]
            ELSE [Forward EXCEPT !.parses = 1]

\* The handler JWTMiddleware(next) returns, on request r
JWTMiddlewareServe(r) ==
    IF isPublic(r.path) THEN Forward
    ELSE IF ~JWTAuthEnabled(envAuth) THEN Forward
    ELSE LET tokenStr == ExtractToken(r)
         IN IF tokenStr = EmptyStr
            THEN [HttpError("Missing or invalid Authorization header or token parameter",
                            StatusUnauthorized)
                     EXCEPT !.log = <<LogEntry("warn",
                                "Missing or invalid token for path: %s",
                                r.path, <<>>, "", "")>>]
            ELSE LET token == ParseWithClaims(tokenStr, jwtSecret, now)
                 IN IF token.err # "" \/ ~token.Valid
                    THEN [HttpError("Invalid or expired token", StatusUnauthorized)
                             EXCEPT !.parses = 1,
                                    !.log = <<LogEntry("warn",
                                       "Invalid or expired token for path %s: %v",
                                       r.path, <<>>, "", token.err)>>]
                    ELSE [Forward EXCEPT !.parses = 1]

\* A plausible slip: the method is not examined.
HandleLoginServeAnyMethod(r, t2) ==
    IF ~r.body.ok
    THEN HttpError("Invalid request body", StatusBadRequest)
    ELSE LET creds == [Username |-> JSONString(r.body.Username, 1),
                       Password |-> JSONString(r.body.Password, 1)]
         IN IF ~validateCredentials(creds.Username, creds.Password)
            THEN HttpError("Invalid credentials", StatusUnauthorized)
            ELSE [NoResp EXCEPT !.status = StatusOK,
                                !.ctype = "application/json",
                                !.token = GenerateJWT(creds.Username, now, t2).token]

\* A plausible slip: the two failures of a login are told apart.
HandleLoginServeTelling(r, t2) ==
    IF r.method # "POST"
    THEN HttpError("Method not allowed", StatusMethodNotAllowed)
    ELSE IF ~r.body.ok
    THEN HttpError("Invalid request body", StatusBadRequest)
    ELSE LET creds == [Username |-> JSONString(r.body.Username, 1),
                       Password |-> JSONString(r.body.Password, 1)]
         IN IF ConstantTimeCompare(creds.Username, GetCredentials.Username) # 1
            THEN HttpError("Unknown user", StatusUnauthorized)
            ELSE IF ConstantTimeCompare(creds.Password, GetCredentials.Password) # 1
            THEN HttpError("Invalid credentials", StatusUnauthorized)
            ELSE [NoResp EXCEPT !.status = StatusOK,
                                !.ctype = "application/json",
                                !.token = GenerateJWT(creds.Username, now, t2).token]

\* HandleLogin on request r; t2 is the clock at GenerateJWT's second reading
HandleLoginServe(r, t2) ==
    IF r.method # "POST"
    THEN HttpError("Method not allowed", StatusMethodNotAllowed)
    ELSE IF ~r.body.ok
    THEN [HttpError("Invalid request body", StatusBadRequest)
             EXCEPT !.log = <<LogEntry("warn", "Invalid request body: %v",
                                       <<>>, <<>>, "", "json")>>]
    ELSE LET creds == [Username |-> JSONString(r.body.Username, 1),
                       Password |-> JSONString(r.body.Password, 1)]
         IN IF ~validateCredentials(creds.Username, creds.Password)
            THEN [HttpError("Invalid credentials", StatusUnauthorized)
                     EXCEPT !.log = <<LogEntry("warn",
                                "Failed login attempt for user '%s'",
                                <<>>, creds.Username, "", "")>>]
            ELSE LET g == GenerateJWT(creds.Username, now, t2)
                 IN IF g.err
                    THEN [HttpError("Failed to generate token",
                                    StatusInternalServerError)
                             EXCEPT !.log = <<LogEntry("warn",
                                        "Failed to generate token for user '%s': %v",
                                        <<>>, creds.Username, "", "sign")>>]
                    ELSE [NoResp EXCEPT !.status = StatusOK,
                                        !.ctype = "application/json",
                                        !.token = g.token,
                                        !.log = <<LogEntry("info",
                                                   "Successful login for user '%s'",
                                                   <<>>, creds.Username, "", "")>>]

\* A plausible slip: a token that does not verify is rejected, as in HandleMe.
HandleAuthCheckServeRejecting(r) ==
    LET isBearer == HasBearerPrefix(r.auth)
        token == ParseWithClaims(r.auth.tok, jwtSecret, now)
    IN IF isBearer /\ (token.err # "" \/ ~token.Valid)
       THEN [HttpError("Invalid or expired token", StatusUnauthorized)
                EXCEPT !.parses = 1]
       ELSE [NoResp EXCEPT !.status = StatusOK, !.ctype = "application/json",
                           !.isAuthenticated = isBearer, !.authEnabled = TRUE,
                           !.parses = IF isBearer THEN 1 ELSE 0]

\* A plausible slip: authEnabled reports the flag as JWTMiddleware reads it.
HandleAuthCheckServeFlag(r) ==
    LET isBearer == HasBearerPrefix(r.auth)
        token == ParseWithClaims(r.auth.tok, jwtSecret, now)
        valid == isBearer /\ token.err = "" /\ token.Valid
    IN [NoResp EXCEPT !.status = StatusOK, !.ctype = "application/json",
                      !.isAuthenticated = valid,
                      !.authEnabled = JWTAuthEnabled(envAuth),
                      !.parses = IF isBearer THEN 1 ELSE 0]

\* HandleAuthCheck on request r
HandleAuthCheckServe(r) ==
    LET isBearer == HasBearerPrefix(r.auth)
        token == ParseWithClaims(r.auth.tok, jwtSecret, now)
        valid == isBearer /\ token.err = "" /\ token.Valid
    IN [NoResp EXCEPT !.status = StatusOK, !.ctype = "application/json",
                      !.isAuthenticated = valid, !.authEnabled = TRUE,
                      !.parses = IF isBearer THEN 1 ELSE 0]

\* A plausible slip: a rejection for bad credentials carries no challenge.
BasicAuthMiddlewareServeNoChallenge(r, enabled) ==
    IF ~enabled THEN Forward
    ELSE LET ba == BasicAuth(r)
         IN IF ~ba.ok
            THEN [HttpError("Unauthorized", StatusUnauthorized)
                     EXCEPT !.challenge = "Basic realm=\"Restricted\""]
            ELSE IF ~validateCredentials(ba.username, ba.password)
            THEN HttpError("Unauthorized", StatusUnauthorized)
            ELSE Forward

\* A plausible slip: public paths are let through, as in JWTMiddleware.
BasicAuthMiddlewareServePublic(r, enabled) ==
    IF ~enabled \/ isPublic(r.path) THEN Forward
    ELSE LET ba == BasicAuth(r)
         IN IF ~ba.ok \/ ~validateCredentials(ba.username, ba.password)
            THEN [HttpError("Unauthorized", StatusUnauthorized)
                     EXCEPT !.challenge = "Basic realm=\"Restricted\""]
            ELSE Forward

\* A plausible slip: the flag is not consulted.
BasicAuthMiddlewareServeNoFlag(r, enabled) ==
    LET ba == BasicAuth(r)
    IN IF ~ba.ok \/ ~validateCredentials(ba.username, ba.password)
       THEN [HttpError("Unauthorized", StatusUnauthorized)
                EXCEPT !.challenge = "Basic realm=\"Restricted\""]
       ELSE Forward

\* The handler BasicAuthMiddleware(next) returns, on request r; enabled is
\* what env.IsBool("CINESYNC_AUTH_ENABLED", true) returned
BasicAuthMiddlewareServe(r, enabled) ==
    IF ~enabled THEN Forward
    ELSE LET ba == BasicAuth(r)
         IN IF ~ba.ok
            THEN [HttpError("Unauthorized", StatusUnauthorized)
                     EXCEPT !.challenge = "Basic realm=\"Restricted\"",
                            !.log = <<LogEntry("warn",
                               "[WebDAV Auth] Basic auth credentials not provided by %s for path %s",
                               r.path, <<>>, r.remote, "")>>]
            ELSE IF ~validateCredentials(ba.username, ba.password)
            THEN [HttpError("Unauthorized", StatusUnauthorized)
                     EXCEPT !.challenge = "Basic realm=\"Restricted\"",
                            !.log = <<LogEntry("warn",
                               "[WebDAV Auth] Invalid basic auth credentials for user '%s' from %s for path %s",
                               r.path, ba.username, r.remote, "")>>]
            ELSE Forward

\* A plausible slip: the username reported is the configured one.
HandleMeServeConfigured(r) ==
    IF ~HasBearerPrefix(r.auth)
    THEN HttpError("Missing or invalid Authorization header", StatusUnauthorized)
    ELSE LET token == ParseWithClaims(r.auth.tok, jwtSecret, now)
         IN IF token.err # "" \/ ~token.Valid
            THEN [HttpError("Invalid or expired token", StatusUnauthorized)
                     EXCEPT !.parses = 1]
            ELSE [NoResp EXCEPT !.status = StatusOK, !.ctype = "application/json",
                                !.username = GetCredentials.Username, !.parses = 1]

\* A plausible slip: a token is honoured only while its username is the
\* configured one, so that changing the credentials revokes it.
HandleMeServeRevoking(r) ==
    IF ~HasBearerPrefix(r.auth)
    THEN HttpError("Missing or invalid Authorization header", StatusUnauthorized)
    ELSE LET token == ParseWithClaims(r.auth.tok, jwtSecret, now)
         IN IF token.err # "" \/ ~token.Valid
               \/ token.Claims.username # GetCredentials.Username
            THEN [HttpError("Invalid or expired token", StatusUnauthorized)
                     EXCEPT !.parses = 1]
            ELSE [NoResp EXCEPT !.status = StatusOK, !.ctype = "application/json",
                                !.username = token.Claims.username, !.parses = 1]

\* A plausible slip: the token is taken as JWTMiddleware takes it, with the
\* query parameter as a fallback.
HandleMeServeQueryFallback(r) ==
    IF ExtractToken(r) = EmptyStr
    THEN HttpError("Missing or invalid Authorization header", StatusUnauthorized)
    ELSE LET token == ParseWithClaims(ExtractToken(r), jwtSecret, now)
         IN IF token.err # "" \/ ~token.Valid
            THEN [HttpError("Invalid or expired token", StatusUnauthorized)
                     EXCEPT !.parses = 1]
            ELSE [NoResp EXCEPT !.status = StatusOK, !.ctype = "application/json",
                                !.username = token.Claims.username, !.parses = 1]

\* HandleMe on request r
HandleMeServe(r) ==
    IF ~HasBearerPrefix(r.auth)
    THEN HttpError("Missing or invalid Authorization header", StatusUnauthorized)
    ELSE LET token == ParseWithClaims(r.auth.tok, jwtSecret, now)
         IN IF token.err # "" \/ ~token.Valid
            THEN [HttpError("Invalid or expired token", StatusUnauthorized)
                     EXCEPT !.parses = 1]
            ELSE [NoResp EXCEPT !.status = StatusOK, !.ctype = "application/json",
                                !.username = token.Claims.username, !.parses = 1]

----------------------------------------------------------------------------
(* The environment: what clients send and what the operator configures *)

\* Values of CINESYNC_AUTH_ENABLED ("" : unset)
FlagValues == {"", "true", "false", "0"}

\* Values of JWT_SECRET at process start ("" : unset)
SecretValues == {"", "k1"}

\* Keys a party other than the process may sign with
ForeignKeys == {"", "k2"}

\* Values of (CINESYNC_USERNAME, CINESYNC_PASSWORD) (<<>> : unset)
ConfiguredCredentials == {<<(<<>>), (<<>>)>>, <<STR_root, STR_toor>>}

PathHealth   == <<"/","a","p","i","/","h","e","a","l","t","h">>
PathStatic   == <<"/","s","t","a","t","i","c","/","a","p","p",".","j","s">>
PathApiExtra == <<"/","a","p","i","e","x","t","r","a">>
PathFiles    == <<"/","f","i","l","e","s">>

Paths == {PathHealth, PathStatic, PathApiExtra, PathFiles}

\* A JWT that a party holding key made at time t for username
Forge(key, username, t) ==
    SignedString(Claims(username, NewNumericDate(t), NewNumericDate(t + TokenTTL)), key)

\* A token string that lost its last character
Truncate(tok) == [tok EXCEPT !.sig.cut = 1]

\* A token whose payload was rewritten to expire later, the signature kept
ExtendExpiry(tok) == [tok EXCEPT !.claims.exp = @ + TokenTTL]

\* What the client keeps of a login: the token, the username it logged in
\* with, and the time the login was handled (the clock GenerateJWT read first)
NoHeld == [has |-> FALSE, tok |-> EmptyStr, user |-> <<>>, at |-> 0]

HeldTokens == IF held.has THEN {held.tok} ELSE {}

PresentedTokens ==
    {EmptyStr, Garbage}
    \cup HeldTokens
    \cup {Truncate(t) : t \in HeldTokens}
    \cup {ExtendExpiry(t) : t \in HeldTokens}
    \cup {Forge(k, STR_admin, now) : k \in ForeignKeys}

AuthorizationHeaders ==
    {NoHeader, BasicHeader("Basic ", STR_admin, STR_admin)}
    \cup {BearerHeader("Bearer ", t) : t \in PresentedTokens}
    \cup {BearerHeader("bearer ", t) : t \in HeldTokens}

QueryTokens == {EmptyStr, Forge("k2", STR_admin, now)} \cup HeldTokens

BearerRequests ==
    {Request("GET", path, auth, query, NoBody) :
        path \in Paths, auth \in AuthorizationHeaders, query \in QueryTokens}

EndpointRequests ==
    {Request("GET", <<>>, auth, query, NoBody) :
        auth \in AuthorizationHeaders, query \in {EmptyStr} \cup HeldTokens}

AttemptedUsernames == {STR_admin, STR_Admin, STR_root}
AttemptedPasswords == {STR_admin, STR_adm, STR_toor}

BasicHeaders ==
    {NoHeader, BasicGarbage, BasicHeader("basic ", STR_admin, STR_admin),
     BearerHeader("Bearer ", Garbage)}
    \cup {BasicHeader("Basic ", u, p) :
            u \in AttemptedUsernames, p \in AttemptedPasswords}

BasicRequests ==
    {Request("PROPFIND", path, auth, EmptyStr, NoBody) :
        path \in {PathHealth, PathFiles}, auth \in BasicHeaders}

LoginRequests ==
    {Request(method, <<>>, NoHeader, EmptyStr, body) :
        method \in {"POST", "GET"},
        body \in {NoBody} \cup {JSONBody(u, p) :
                    u \in AttemptedUsernames, p \in AttemptedPasswords}}

----------------------------------------------------------------------------
(* The DatabaseSearch component: its state when it is mounted *)

\* The file paths the database may hold; FileC is a record with no
\* destination_path, the others have one
FileA == "/media/a.mkv"
FileB == "/media/b.mkv"
FileC == "/media/c.mkv"

Files == {FileA, FileB, FileC}

\* record.destination_path && record.destination_path.trim() !== ''
HasDestination(file) == file \in {FileA, FileB}

\* error === null
Null == "null"

\* handleBulkActionConfirm is not running and has left nothing to look at.
NoBulkDelete ==
    [stage |-> "none", selectedFiles |-> {}, records |-> {}, shown |-> {},
     failed |-> FALSE, deleted |-> {}]

\* After the first render and its effects: the effect on currentPage has
\* started a fetch, the effect on searchQuery and filterType has set its timer.
DatabaseSearchMounted ==
    /\ records = {}
    /\ selectedFiles = {}
    /\ loading = TRUE
    /\ error = Null
    /\ bulkActionLoading = FALSE
    /\ bulkActionDialogOpen = FALSE
    /\ fetches = 1
    /\ searchTimer = TRUE
    /\ bulkDelete = NoBulkDelete

----------------------------------------------------------------------------
(* The state machine *)

\* One HTTP exchange: the handler that answered, its request, the clock when
\* it started, what the handler read as the Auth-Enabled flag, its response
Exchange(handler, r, enabled, resp) ==
    [handler |-> handler, req |-> r, at |-> now, enabled |-> enabled, resp |-> resp]

Idle == [handler |-> "idle", req |-> NoRequest, at |-> 0, enabled |-> TRUE,
         resp |-> NoResp]

\* An exchange that has been answered, with the credentials that were
\* configured while it was
Answered(exchange, credentials) == [ex |-> exchange, creds |-> credentials]

NoPrev == Answered(Idle, [Username |-> <<>>, Password |-> <<>>])

Init ==
    /\ now = 0
    /\ envAuth \in FlagValues
    /\ \E c \in ConfiguredCredentials : envUser = c[1] /\ envPass = c[2]
    /\ jwtSecret \in SecretValues
    /\ held = NoHeld
    /\ last = Idle
    /\ prev = NoPrev
    /\ DatabaseSearchMounted

\* Time passes between two exchanges.
Tick ==
    /\ last = Idle
    /\ \E t \in Instants : t > now /\ now' = t
    /\ prev' = NoPrev
    /\ UNCHANGED <<envAuth, envUser, envPass, jwtSecret, held, last, dbVars>>

\* The operator changes CINESYNC_AUTH_ENABLED between two exchanges.
SetAuthEnabled ==
    /\ last = Idle
    /\ \E v \in FlagValues : v # envAuth /\ envAuth' = v
    /\ UNCHANGED <<now, envUser, envPass, jwtSecret, held, last, prev, dbVars>>

\* A request reaches the handler JWTMiddleware wraps.
JWTMiddleware ==
    /\ last = Idle
    /\ \E r \in BearerRequests :
          last' = Exchange("JWTMiddleware", r, JWTAuthEnabled(envAuth),
                           JWTMiddlewareServe(r))
    /\ UNCHANGED <<now, envAuth, envUser, envPass, jwtSecret, held, prev, dbVars>>

\* A request reaches the handler BasicAuthMiddleware wraps.
BasicAuthMiddleware ==
    /\ last = Idle
    /\ \E r \in BasicRequests, enabled \in env_IsBool(envAuth, TRUE) :
          last' = Exchange("BasicAuthMiddleware", r, enabled,
                           BasicAuthMiddlewareServe(r, enabled))
    /\ UNCHANGED <<now, envAuth, envUser, envPass, jwtSecret, held, prev, dbVars>>

\* A plausible slip: a login finding the secret empty sets one for the
\* process before it signs.
HandleLoginSettingSecret ==
    /\ last = Idle
    /\ \E r \in LoginRequests :
          LET resp == HandleLoginServe(r, now)
          IN /\ last' = Exchange("HandleLogin", r, TRUE, resp)
             /\ jwtSecret' = IF jwtSecret = "" THEN "k1" ELSE jwtSecret
             /\ held' = IF resp.status = StatusOK
                        THEN [has |-> TRUE, tok |-> resp.token,
                              user |-> JSONString(r.body.Username, 1),
                              at |-> now]
                        ELSE held
    /\ UNCHANGED <<now, envAuth, envUser, envPass, prev, dbVars>>

\* A request reaches HandleLogin.  The clock may advance between the two
\* readings GenerateJWT takes of it; the client keeps the token it is sent.
HandleLogin ==
    /\ last = Idle
    /\ \E r \in LoginRequests, t2 \in Instants :
          LET resp == HandleLoginServe(r, t2)
          IN /\ t2 >= now /\ t2 <= now + 1
             /\ resp.status # StatusOK => t2 = now
             /\ last' = Exchange("HandleLogin", r, TRUE, resp)
             /\ now' = t2
             /\ prev' = IF t2 = now THEN prev ELSE NoPrev
             /\ held' = IF resp.status = StatusOK
                        THEN [has |-> TRUE, tok |-> resp.token,
                              user |-> JSONString(r.body.Username, 1),
                              at |-> now]
                        ELSE held
    /\ UNCHANGED <<envAuth, envUser, envPass, jwtSecret, dbVars>>

\* A request reaches HandleAuthCheck.
HandleAuthCheck ==
    /\ last = Idle
    /\ \E r \in EndpointRequests :
          last' = Exchange("HandleAuthCheck", r, TRUE, HandleAuthCheckServe(r))
    /\ UNCHANGED <<now, envAuth, envUser, envPass, jwtSecret, held, prev, dbVars>>

\* A request reaches HandleMe.
HandleMe ==
    /\ last = Idle
    /\ \E r \in EndpointRequests :
          last' = Exchange("HandleMe", r, TRUE, HandleMeServe(r))
    /\ UNCHANGED <<now, envAuth, envUser, envPass, jwtSecret, held, prev, dbVars>>

\* The response has been written and the handler has returned.
Return ==
    /\ last # Idle
    /\ last' = Idle
    /\ UNCHANGED <<now, envAuth, envUser, envPass, jwtSecret, held, prev, dbVars>>

Next ==
    \/ Tick
    \/ SetAuthEnabled
    \/ JWTMiddleware
    \/ BasicAuthMiddleware
    \/ HandleLogin
    \/ HandleAuthCheck
    \/ HandleMe
    \/ Return

Spec == Init /\ [][Next]_vars

----------------------------------------------------------------------------
(* validateCredentials called directly, over wider inputs *)

ConfiguredUsernames == {<<>>, STR_root, STR_Admin}
ConfiguredPasswords == {<<>>, STR_toor, STR_adm}

ValidateStrings ==
    {<<>>, STR_adm, STR_admin, STR_Admin, STR_admin1, STR_root, STR_toor}

InitValidate ==
    /\ now = 0
    /\ envAuth = ""
    /\ envUser \in ConfiguredUsernames
    /\ envPass \in ConfiguredPasswords
    /\ jwtSecret = "k1"
    /\ held = NoHeld
    /\ last = Idle
    /\ prev = NoPrev
    /\ DatabaseSearchMounted

CallValidateCredentials ==
    /\ last = Idle
    /\ \E username \in ValidateStrings, password \in ValidateStrings :
          last' = Exchange("validateCredentials",
                           Request("", <<>>, NoHeader, EmptyStr,
                                   JSONBody(username, password)),
                           TRUE,
                           [NoResp EXCEPT !.ret = validateCredentials(username, password),
                                          !.work = validateCredentialsWork(username, password)])
    /\ UNCHANGED <<now, envAuth, envUser, envPass, jwtSecret, held, prev, dbVars>>

NextValidate ==
    \/ CallValidateCredentials
    \/ Return

SpecValidate == InitValidate /\ [][NextValidate]_vars

----------------------------------------------------------------------------
(* GenerateJWT called directly, and its token verified at once *)

IssueUsernames == {<<>>, STR_admin, STR_root, STR_eacute, STR_fffd, STR_bad}

InitIssue ==
    /\ now = 0
    /\ envAuth = ""
    /\ envUser = <<>>
    /\ envPass = <<>>
    /\ jwtSecret \in SecretValues
    /\ held = NoHeld
    /\ last = Idle
    /\ prev = NoPrev
    /\ DatabaseSearchMounted

\* GenerateJWT(username), then jwt.ParseWithClaims on the token it returned,
\* as HandleMe does, with no time passing in between
CallGenerateJWT ==
    /\ last = Idle
    /\ \E username \in IssueUsernames, t2 \in Instants :
          LET g == GenerateJWT(username, now, t2)
              token == ParseWithClaims(g.token, jwtSecret, t2)
          IN /\ t2 >= now /\ t2 <= now + 1
             /\ now' = t2
             /\ last' = Exchange("GenerateJWT",
                                 Request("", <<>>, NoHeader, EmptyStr,
                                         JSONBody(username, <<>>)),
                                 TRUE,
                                 [NoResp EXCEPT !.token = g.token,
                                                !.ret = ~g.err /\ token.err = "" /\ token.Valid,
                                                !.username = token.Claims.username,
                                                !.parses = 1])
    /\ UNCHANGED <<envAuth, envUser, envPass, jwtSecret, held, prev, dbVars>>

NextIssue ==
    \/ Tick
    \/ CallGenerateJWT
    \/ Return

SpecIssue == InitIssue /\ [][NextIssue]_vars

----------------------------------------------------------------------------
(* The public-endpoint test of JWTMiddleware, over a wider set of paths *)

PathStaticDir  == <<"/","s","t","a","t","i","c">>
PathDotDotOut  == <<"/","a","p","i","/",".",".","/","f","i","l","e","s">>
PathDotDotIn   == <<"/","f","i","l","e","s","/",".",".","/","a","p","i","/","h","e","a","l","t","h">>
PathUpperApi   == <<"/","A","P","I">>
PathRelative   == <<"a","p","i","/","h","e","a","l","t","h">>
PathApiDelete  == <<"/","a","p","i","/","d","e","l","e","t","e">>
PathApiMe      == <<"/","a","p","i","/","m","e">>
PathApiDatabaseUpdate ==
    <<"/","a","p","i","/","d","a","t","a","b","a","s","e","/","u","p","d","a","t","e">>

\* What a path may carry after a listed endpoint
PathSuffixes == {<<>>, <<"/">>, <<"/","x">>, <<"x">>, <<"e","x","t","r","a">>}

ClassifyPaths ==
    {authEndpoints[k] \o suffix : k \in 1 .. Len(authEndpoints), suffix \in PathSuffixes}
    \cup {SubSeq(authEndpoints[k], 1, Len(authEndpoints[k]) - 1) :
            k \in 1 .. Len(authEndpoints)}
    \cup {StaticPrefix \o suffix : suffix \in PathSuffixes}
    \cup Paths
    \cup {<<>>, PathStaticDir, PathDotDotOut, PathDotDotIn, PathUpperApi, PathRelative}
    \cup {PathApiDelete, PathApiMe, PathApiDatabaseUpdate}

\* The test JWTMiddleware applies to r.URL.Path, called on one path
CallIsPublic ==
    /\ last = Idle
    /\ \E path \in ClassifyPaths :
          last' = Exchange("isPublic",
                           Request("GET", path, NoHeader, EmptyStr, NoBody),
                           TRUE,
                           [NoResp EXCEPT !.ret = isPublic(path)])
    /\ UNCHANGED <<now, envAuth, envUser, envPass, jwtSecret, held, prev, dbVars>>

\* A request that carries no token reaches the handler JWTMiddleware wraps.
TokenlessJWTMiddleware ==
    /\ last = Idle
    /\ \E path \in ClassifyPaths :
          LET r == Request("GET", path, NoHeader, EmptyStr, NoBody)
          IN last' = Exchange("JWTMiddleware", r, JWTAuthEnabled(envAuth),
                              JWTMiddlewareServe(r))
    /\ UNCHANGED <<now, envAuth, envUser, envPass, jwtSecret, held, prev, dbVars>>

NextClassify ==
    \/ CallIsPublic
    \/ TokenlessJWTMiddleware
    \/ Return

SpecClassify == InitIssue /\ [][NextClassify]_vars

----------------------------------------------------------------------------
(* Exchanges one after another while the operator changes the credentials *)

CoordTokens == {Garbage} \cup HeldTokens

CoordBearerRequests ==
    {Request("GET", PathFiles, BearerHeader("Bearer ", t), EmptyStr, NoBody) :
        t \in CoordTokens}

CoordEndpointRequests ==
    {Request("GET", <<>>, BearerHeader("Bearer ", t), EmptyStr, NoBody) :
        t \in CoordTokens}

CoordBasicRequests ==
    {Request("PROPFIND", PathFiles, BasicHeader("Basic ", c[1], c[2]), EmptyStr, NoBody) :
        c \in {<<STR_admin, STR_admin>>, <<STR_root, STR_toor>>}}

CoordLoginRequests ==
    {Request("POST", <<>>, NoHeader, EmptyStr, JSONBody(c[1], c[2])) :
        c \in {<<STR_admin, STR_admin>>, <<STR_root, STR_toor>>}}

InitCoord ==
    /\ now = 0
    /\ envAuth \in {"", "false"}
    /\ \E c \in ConfiguredCredentials : envUser = c[1] /\ envPass = c[2]
    /\ jwtSecret = "k1"
    /\ held = NoHeld
    /\ last = Idle
    /\ prev = NoPrev
    /\ DatabaseSearchMounted

\* The operator changes CINESYNC_USERNAME and CINESYNC_PASSWORD between two
\* exchanges; GetCredentials reads them at every call.
SetCredentials ==
    /\ last = Idle
    /\ \E c \in ConfiguredCredentials :
          /\ <<envUser, envPass>> # c
          /\ envUser' = c[1]
          /\ envPass' = c[2]
    /\ UNCHANGED <<now, envAuth, jwtSecret, held, last, prev, dbVars>>

CoordJWTMiddleware ==
    /\ last = Idle
    /\ \E r \in CoordBearerRequests :
          last' = Exchange("JWTMiddleware", r, JWTAuthEnabled(envAuth),
                           JWTMiddlewareServe(r))
    /\ UNCHANGED <<now, envAuth, envUser, envPass, jwtSecret, held, prev, dbVars>>

CoordBasicAuthMiddleware ==
    /\ last = Idle
    /\ \E r \in CoordBasicRequests, enabled \in env_IsBool(envAuth, TRUE) :
          last' = Exchange("BasicAuthMiddleware", r, enabled,
                           BasicAuthMiddlewareServe(r, enabled))
    /\ UNCHANGED <<now, envAuth, envUser, envPass, jwtSecret, held, prev, dbVars>>

\* HandleLogin, the clock not advancing while it runs
CoordHandleLogin ==
    /\ last = Idle
    /\ \E r \in CoordLoginRequests :
          LET resp == HandleLoginServe(r, now)
          IN /\ last' = Exchange("HandleLogin", r, TRUE, resp)
             /\ held' = IF resp.status = StatusOK
                        THEN [has |-> TRUE, tok |-> resp.token,
                              user |-> JSONString(r.body.Username, 1),
                              at |-> now]
                        ELSE held
    /\ UNCHANGED <<now, envAuth, envUser, envPass, jwtSecret, prev, dbVars>>

CoordHandleAuthCheck ==
    /\ last = Idle
    /\ \E r \in CoordEndpointRequests :
          last' = Exchange("HandleAuthCheck", r, TRUE, HandleAuthCheckServe(r))
    /\ UNCHANGED <<now, envAuth, envUser, envPass, jwtSecret, held, prev, dbVars>>

CoordHandleMe ==
    /\ last = Idle
    /\ \E r \in CoordEndpointRequests :
          last' = Exchange("HandleMe", r, TRUE, HandleMeServe(r))
    /\ UNCHANGED <<now, envAuth, envUser, envPass, jwtSecret, held, prev, dbVars>>

\* The handler has returned; the exchange is kept for comparison with the next.
CoordReturn ==
    /\ last # Idle
    /\ last' = Idle
    /\ prev' = Answered(last, GetCredentials)
    /\ UNCHANGED <<now, envAuth, envUser, envPass, jwtSecret, held, dbVars>>

NextCoord ==
    \/ Tick
    \/ SetAuthEnabled
    \/ SetCredentials
    \/ CoordJWTMiddleware
    \/ CoordBasicAuthMiddleware
    \/ CoordHandleLogin
    \/ CoordHandleAuthCheck
    \/ CoordHandleMe
    \/ CoordReturn

SpecCoord == InitCoord /\ [][NextCoord]_vars

----------------------------------------------------------------------------
(* The DatabaseSearch component: selection, fetches and the bulk delete *)

\* Fetches of records the model lets be in flight at once
MaxFetches == 2

\* A bulk delete has just finished; nothing else happens before its outcome
\* has been looked at.
Settled == bulkDelete.stage = "settled"

\* The results (rows, check boxes, toolbar, pagination) are rendered and can
\* be reached: no fetch has left loading set and no dialog covers them.
ResultsShown == ~loading /\ ~bulkActionDialogOpen /\ ~Settled

\* a || b on numbers, as JavaScript evaluates it
NumberOr(a, b) == IF a # 0 THEN a ELSE b

\* What the server may answer to a delete of paths: the request throws, or
\* it answers success = false, or success = true having deleted some of them
DeleteResponses(paths) ==
    {[threw |-> TRUE, success |-> FALSE, deleted |-> {}],
     [threw |-> FALSE, success |-> FALSE, deleted |-> {}]}
    \cup {[threw |-> FALSE, success |-> TRUE, deleted |-> d] : d \in SUBSET paths}

\* The check box of a row
handleFileSelect ==
    /\ ResultsShown
    /\ \E filePath \in records :
          LET checked == filePath \notin selectedFiles
          IN selectedFiles' = IF checked THEN selectedFiles \cup {filePath}
                              ELSE selectedFiles \ {filePath}
    /\ UNCHANGED <<records, loading, error, bulkActionLoading,
                   bulkActionDialogOpen, fetches, searchTimer, bulkDelete>>
    /\ UNCHANGED authVars

\* The check box of the bulk selection toolbar, which is shown while
\* something is selected
handleSelectAll ==
    /\ ResultsShown
    /\ selectedFiles # {}
    /\ LET checked == ~(Cardinality(selectedFiles) = Cardinality(records)
                        /\ records # {})
       IN selectedFiles' = IF checked THEN records ELSE {}
    /\ UNCHANGED <<records, loading, error, bulkActionLoading,
                   bulkActionDialogOpen, fetches, searchTimer, bulkDelete>>
    /\ UNCHANGED authVars

\* The Refresh button calls fetchDatabaseRecords, up to its await.
Refresh ==
    /\ ~loading /\ ~bulkActionDialogOpen /\ ~Settled
    /\ fetches < MaxFetches
    /\ loading' = TRUE
    /\ fetches' = fetches + 1
    /\ UNCHANGED <<records, selectedFiles, error, bulkActionLoading,
                   bulkActionDialogOpen, searchTimer, bulkDelete>>
    /\ UNCHANGED authVars

\* Pagination sets another page; the effect on currentPage clears the
\* selection and calls fetchDatabaseRecords.
PageChange ==
    /\ ResultsShown
    /\ fetches < MaxFetches
    /\ selectedFiles' = {}
    /\ loading' = TRUE
    /\ fetches' = fetches + 1
    /\ UNCHANGED <<records, error, bulkActionLoading, bulkActionDialogOpen,
                   searchTimer, bulkDelete>>
    /\ UNCHANGED authVars

\* The search field or the filter changes; the effect on searchQuery and
\* filterType sets its timer anew.
SearchChange ==
    /\ ~bulkActionDialogOpen /\ ~Settled
    /\ ~searchTimer
    /\ searchTimer' = TRUE
    /\ UNCHANGED <<records, selectedFiles, loading, error, bulkActionLoading,
                   bulkActionDialogOpen, fetches, bulkDelete>>
    /\ UNCHANGED authVars

\* A statistics card sets the filter and clears the selection (as
\* handleClearSearch does); the effect sets its timer.
handleStatsCardClick ==
    /\ ~bulkActionDialogOpen /\ ~Settled
    /\ selectedFiles' = {}
    /\ searchTimer' = TRUE
    /\ UNCHANGED <<records, loading, error, bulkActionLoading,
                   bulkActionDialogOpen, fetches, bulkDelete>>
    /\ UNCHANGED authVars

\* The timer of the effect fires: the selection is cleared and
\* fetchDatabaseRecords is called.
SearchTimerFires ==
    /\ searchTimer /\ ~Settled
    /\ fetches < MaxFetches
    /\ searchTimer' = FALSE
    /\ selectedFiles' = {}
    /\ loading' = TRUE
    /\ fetches' = fetches + 1
    /\ UNCHANGED <<records, error, bulkActionLoading, bulkActionDialogOpen,
                   bulkDelete>>
    /\ UNCHANGED authVars

\* fetchDatabaseRecords after its await, the request having succeeded
FetchSucceeds ==
    /\ fetches > 0 /\ ~Settled
    /\ \E found \in SUBSET Files : records' = found
    /\ selectedFiles' = {}
    /\ loading' = FALSE
    /\ fetches' = fetches - 1
    /\ UNCHANGED <<error, bulkActionLoading, bulkActionDialogOpen, searchTimer,
                   bulkDelete>>
    /\ UNCHANGED authVars

\* fetchDatabaseRecords after its await, the request having thrown
FetchFails ==
    /\ fetches > 0 /\ ~Settled
    /\ records' = {}
    /\ loading' = FALSE
    /\ fetches' = fetches - 1
    /\ UNCHANGED <<selectedFiles, error, bulkActionLoading, bulkActionDialogOpen,
                   searchTimer, bulkDelete>>
    /\ UNCHANGED authVars

\* The Delete button of the toolbar
handleBulkAction ==
    /\ ResultsShown
    /\ selectedFiles # {} /\ ~bulkActionLoading
    /\ bulkActionDialogOpen' = TRUE
    /\ UNCHANGED <<records, selectedFiles, loading, error, bulkActionLoading,
                   fetches, searchTimer, bulkDelete>>
    /\ UNCHANGED authVars

\* onClose of the dialog (Escape, a click outside it) or its Cancel button
CloseBulkActionDialog ==
    /\ bulkActionDialogOpen /\ ~Settled
    /\ bulkActionDialogOpen' = FALSE
    /\ UNCHANGED <<records, selectedFiles, loading, error, bulkActionLoading,
                   fetches, searchTimer, bulkDelete>>
    /\ UNCHANGED authVars

\* handleBulkActionConfirm up to its first await; it keeps the selectedFiles
\* and records of the render it was created in
handleBulkActionConfirm ==
    /\ bulkActionDialogOpen /\ ~bulkActionLoading
    /\ bulkDelete.stage = "none"
    /\ selectedFiles # {}
    /\ bulkActionLoading' = TRUE
    /\ error' = Null
    /\ bulkDelete' = [NoBulkDelete EXCEPT !.stage = "deleting",
                                          !.selectedFiles = selectedFiles,
                                          !.records = records]
    /\ UNCHANGED <<records, selectedFiles, loading, bulkActionDialogOpen,
                   fetches, searchTimer>>
    /\ UNCHANGED authVars

\* handleBulkActionConfirm from the answers of the server to its end
BulkDeleteSettles ==
    /\ bulkDelete.stage = "deleting"
    /\ LET selectedRecords == bulkDelete.records \cap bulkDelete.selectedFiles
           filesWithDestination == {f \in selectedRecords : HasDestination(f)}
           filesWithoutDestination == selectedRecords \ filesWithDestination
       IN \E first \in DeleteResponses(filesWithDestination),
             second \in DeleteResponses(filesWithoutDestination) :
             LET firstMade == filesWithDestination # {}
                 secondMade == filesWithoutDestination # {}
                 firstErrors ==
                     IF ~firstMade THEN 0
                     ELSE IF first.threw \/ ~first.success THEN 1
                     ELSE Cardinality(filesWithDestination \ first.deleted)
                 secondErrors == IF secondMade /\ second.threw THEN 1 ELSE 0
                 errors == firstErrors + secondErrors
                 totalDeleted ==
                     (IF firstMade /\ first.success
                      THEN NumberOr(Cardinality(first.deleted),
                                    Cardinality(filesWithDestination))
                      ELSE 0)
                     + (IF secondMade /\ second.success
                        THEN NumberOr(Cardinality(second.deleted),
                                      Cardinality(filesWithoutDestination))
                        ELSE 0)
                 deleted == (IF firstMade THEN first.deleted ELSE {})
                            \cup (IF secondMade THEN second.deleted ELSE {})
                 failed == \/ firstMade /\ (first.threw \/ ~first.success)
                           \/ firstMade /\ first.deleted # filesWithDestination
                           \/ secondMade /\ (second.threw \/ ~second.success)
             IN /\ ~firstMade => first = [threw |-> FALSE, success |-> FALSE, deleted |-> {}]
                /\ ~secondMade => second = [threw |-> FALSE, success |-> FALSE, deleted |-> {}]
                /\ bulkDelete' = [bulkDelete EXCEPT !.stage = "settled",
                                                    !.shown = records,
                                                    !.failed = failed,
                                                    !.deleted = deleted]
                /\ bulkActionLoading' = FALSE
                /\ IF totalDeleted > 0
                   THEN /\ fetches < MaxFetches
                        /\ records' = records \ bulkDelete.selectedFiles
                        /\ selectedFiles' = {}
                        /\ bulkActionDialogOpen' = FALSE
                        /\ loading' = TRUE
                        /\ fetches' = fetches + 1
                        /\ UNCHANGED error
                   ELSE /\ error' = IF errors > 0
                                    THEN "Failed to delete any files"
                                    ELSE error
                        /\ UNCHANGED <<records, selectedFiles, bulkActionDialogOpen,
                                       loading, fetches>>
    /\ UNCHANGED searchTimer
    /\ UNCHANGED authVars

\* The outcome of the bulk delete has been rendered.
BulkDeleteReturn ==
    /\ Settled
    /\ bulkDelete' = NoBulkDelete
    /\ UNCHANGED <<records, selectedFiles, loading, error, bulkActionLoading,
                   bulkActionDialogOpen, fetches, searchTimer>>
    /\ UNCHANGED authVars

NextDatabaseSearch ==
    \/ handleFileSelect
    \/ handleSelectAll
    \/ Refresh
    \/ PageChange
    \/ SearchChange
    \/ handleStatsCardClick
    \/ SearchTimerFires
    \/ FetchSucceeds
    \/ FetchFails
    \/ handleBulkAction
    \/ CloseBulkActionDialog
    \/ handleBulkActionConfirm
    \/ BulkDeleteSettles
    \/ BulkDeleteReturn

SpecDatabaseSearch == InitIssue /\ [][NextDatabaseSearch]_vars

----------------------------------------------------------------------------
(* Vocabulary of the properties *)

\* The signature of tok is the MAC of its content under the process secret.
SignatureVerifies(tok) ==
    tok.kind = "jwt" /\ tok.sig.cut = 0 /\ tok.sig.key = jwtSecret
    /\ tok.sig.over = tok.claims

\* tok is a token that is valid at time t.
TokenVerifies(tok, t) == SignatureVerifies(tok) /\ t < tok.claims.exp

\* The exchange was answered by the Bearer gateway, which had to decide on a
\* token: the path is not public and auth is enabled.
BearerGuarded ==
    /\ last.handler = "JWTMiddleware"
    /\ ~isPublic(last.req.path)
    /\ JWTAuthEnabled(envAuth)

\* The token string the exchange presented to verification, for the three
\* handlers that verify one
PresentedToken ==
    IF last.handler = "JWTMiddleware" THEN ExtractToken(last.req)
    ELSE last.req.auth.tok

\* The handler accepted the presented token.
TokenAccepted ==
    CASE last.handler = "JWTMiddleware" -> last.resp.next = 1
      [] last.handler = "HandleMe" -> last.resp.status = StatusOK
      [] last.handler = "HandleAuthCheck" -> last.resp.isAuthenticated
      [] OTHER -> FALSE

----------------------------------------------------------------------------
(* Properties *)

\* C1: for a request to the Bearer gateway whose path is not public, while
\* auth is enabled, the next handler is invoked, exactly once, if and only if
\* a token string was extracted and it verifies (signed under the process
\* secret and not expired); otherwise the response is 401 and the next
\* handler is not invoked.
C1_ForwardIffTokenVerifies ==
    BearerGuarded =>
        LET tok == ExtractToken(last.req)
            verified == tok # EmptyStr /\ TokenVerifies(tok, last.at)
        IN /\ last.resp.next \in {0, 1}
           /\ (last.resp.next = 1) <=> verified
           /\ ~verified => last.resp.status = StatusUnauthorized
           /\ verified => last.resp.status = 0

\* C1 witness: a guarded request with a verified token reached the next handler.
C1_Witness ==
    /\ BearerGuarded
    /\ last.resp.next = 1
    /\ TokenVerifies(ExtractToken(last.req), last.at)

\* C2: a request to the Bearer gateway whose path is public is forwarded with
\* no token check, whatever the flag and whatever token it carries.
C2_PublicPathForwarded ==
    (last.handler = "JWTMiddleware" /\ isPublic(last.req.path)) =>
        /\ last.resp.next = 1
        /\ last.resp.status = 0
        /\ last.resp.parses = 0

\* C2 witness: a public path was forwarded while auth was enabled and the
\* request carried a token string that does not verify.
C2_Witness ==
    /\ last.handler = "JWTMiddleware"
    /\ isPublic(last.req.path)
    /\ JWTAuthEnabled(envAuth)
    /\ ExtractToken(last.req) # EmptyStr
    /\ ~TokenVerifies(ExtractToken(last.req), last.at)
    /\ last.resp.next = 1

\* C3: when the flag is false the Bearer gateway forwards every request,
\* token or not, valid or not, and never answers 401.
C3_DisabledForwardsAll ==
    (last.handler = "JWTMiddleware" /\ envAuth \in {"false", "0"}) =>
        /\ last.resp.next = 1
        /\ last.resp.status # StatusUnauthorized

\* C3 witness: with the flag false, a non-public path carrying a token that
\* does not verify was forwarded.
C3_Witness ==
    /\ last.handler = "JWTMiddleware"
    /\ envAuth = "false"
    /\ ~isPublic(last.req.path)
    /\ ExtractToken(last.req) # EmptyStr
    /\ ~TokenVerifies(ExtractToken(last.req), last.at)
    /\ last.resp.next = 1

\* C4: wherever a token is verified (Bearer gateway, /me, auth-check) it is
\* accepted if and only if its signature verifies against the process secret
\* and the time is strictly before its expiresAt.
C4_AcceptedIffSignedAndUnexpired ==
    (last.handler \in {"JWTMiddleware", "HandleMe", "HandleAuthCheck"}
     /\ last.resp.parses = 1) =>
        (TokenAccepted <=>
            (SignatureVerifies(PresentedToken) /\ last.at < PresentedToken.claims.exp))

\* C4 witness: a token that claims an expiry still ahead, signed with another
\* key or altered after issuance, was rejected.
C4_Witness ==
    /\ last.handler \in {"JWTMiddleware", "HandleMe", "HandleAuthCheck"}
    /\ last.resp.parses = 1
    /\ PresentedToken.kind = "jwt"
    /\ last.at < PresentedToken.claims.exp
    /\ ~SignatureVerifies(PresentedToken)
    /\ ~TokenAccepted

\* The exchange is a /me call that presents the token of the latest login.
HeldPresentedToMe ==
    /\ last.handler = "HandleMe"
    /\ held.has
    /\ last.req.auth = BearerHeader("Bearer ", held.tok)

\* The exchange is a Bearer gateway check, on a non-public path with auth
\* enabled, of the token of the latest login.
HeldPresentedToGateway ==
    /\ BearerGuarded
    /\ held.has
    /\ ExtractToken(last.req) = held.tok

\* The exchange answered 200 with the username of the latest login.
AnsweredLoginUsername ==
    last.resp.status = StatusOK /\ last.resp.username = held.user

\* The exchange was answered 401 and went no further.
Answered401 ==
    last.resp.status = StatusUnauthorized /\ last.resp.next = 0

\* C5 as stated: with t the time of the login, the token is good for /me at
\* every time before t+24h and refused, by /me and by the Bearer gateway, at
\* t+24h+1s and later.
C5_ValidUntilLoginPlus24h ==
    /\ HeldPresentedToMe =>
          /\ last.at < held.at + TokenTTL => AnsweredLoginUsername
          /\ last.at >= held.at + TokenTTL + Second => Answered401
    /\ HeldPresentedToGateway =>
          (last.at >= held.at + TokenTTL + Second => Answered401)

\* C5 amended: with t the time of the login (the clock GenerateJWT reads for
\* ExpiresAt) and floor(t) that time truncated to the whole second, the token
\* is good for /me at every time before floor(t)+24h and refused, by /me and
\* by the Bearer gateway, from floor(t)+24h on, which covers t+24h and later.
C5_ValidUntilTruncatedLoginPlus24h ==
    /\ HeldPresentedToMe =>
          /\ last.at < NewNumericDate(held.at) + TokenTTL => AnsweredLoginUsername
          /\ last.at >= NewNumericDate(held.at) + TokenTTL => Answered401
          /\ last.at >= held.at + TokenTTL => Answered401
    /\ HeldPresentedToGateway =>
          /\ last.at >= NewNumericDate(held.at) + TokenTTL => Answered401
          /\ last.at >= held.at + TokenTTL => Answered401

\* C5 witness: /me refused a correctly signed token 24h+1s or more after the
\* login that issued it.
C5_Witness ==
    /\ HeldPresentedToMe
    /\ SignatureVerifies(held.tok)
    /\ last.at >= held.at + TokenTTL + Second
    /\ Answered401

\* s, from its i-th byte on, is well-formed UTF-8.
RECURSIVE WellFormedFrom(_, _)
WellFormedFrom(s, i) ==
    IF i > Len(s) THEN TRUE
    ELSE RuneLen(s, i) > 0 /\ WellFormedFrom(s, i + RuneLen(s, i))

\* The exchange issued a token for a username and verified it at once:
\* verification succeeded and gave back that username.
RoundTripHolds ==
    last.resp.ret /\ last.resp.username = last.req.body.Username

\* C6 as stated: for every username i, the token GenerateJWT(i) returns
\* verifies right after issuance and the identity extracted from it is i.
C6_RoundTrip ==
    last.handler = "GenerateJWT" => RoundTripHolds

\* C6 amended: the same, for every username i that is well-formed UTF-8.
C6_RoundTripWellFormed ==
    (last.handler = "GenerateJWT" /\ WellFormedFrom(last.req.body.Username, 1))
        => RoundTripHolds

\* C6 witness: a token issued for a non-ASCII, well-formed username verified
\* and gave the username back.
C6_Witness ==
    /\ last.handler = "GenerateJWT"
    /\ last.req.body.Username = STR_eacute
    /\ RoundTripHolds

\* C7: every token the issuer produced encodes expiresAt = issuedAt + 24h.
C7_ExpiresIssuedPlus24h ==
    held.has => held.tok.claims.exp = held.tok.claims.iat + TokenTTL

\* C8: validateCredentials(u', p') is true if and only if u' is the
\* configured username and p' the configured password, byte for byte.
C8_ValidateIffExactMatch ==
    last.handler = "validateCredentials" =>
        (last.resp.ret <=>
            (/\ last.req.body.Username = GetCredentials.Username
             /\ last.req.body.Password = GetCredentials.Password))

\* C8 witness: an attempt whose username is right and whose password is a
\* proper prefix of the configured one was refused.
C8_Witness ==
    /\ last.handler = "validateCredentials"
    /\ last.req.body.Username = GetCredentials.Username
    /\ last.req.body.Password # GetCredentials.Password
    /\ HasPrefix(GetCredentials.Password, last.req.body.Password)
    /\ Len(last.req.body.Password) > 0
    /\ ~last.resp.ret

\* The request of the exchange carries HTTP Basic credentials and they are
\* the configured ones.
BasicCredentialsMatch ==
    /\ last.req.auth.scheme \in {"Basic ", "basic ", "BASIC "}
    /\ last.req.auth.ok
    /\ last.req.auth.user = GetCredentials.Username
    /\ last.req.auth.pass = GetCredentials.Password

\* C9: the Basic gateway forwards a request if and only if the flag is
\* disabled or the request carries Basic credentials that validate, on every
\* path, those the Bearer gateway treats as public included.
C9_BasicForwardIffDisabledOrValid ==
    last.handler = "BasicAuthMiddleware" =>
        /\ last.resp.next \in {0, 1}
        /\ (last.resp.next = 1) <=> (~last.enabled \/ BasicCredentialsMatch)

\* C9 witness: with auth enabled, a request without valid credentials for a
\* path that is public to the Bearer gateway was not forwarded.
C9_Witness ==
    /\ last.handler = "BasicAuthMiddleware"
    /\ last.enabled
    /\ isPublic(last.req.path)
    /\ ~BasicCredentialsMatch
    /\ last.resp.next = 0

\* What the client receives of a response
ClientView(resp) ==
    [status |-> resp.status, text |-> resp.text, ctype |-> resp.ctype,
     challenge |-> resp.challenge, token |-> resp.token,
     username |-> resp.username]

\* C10: every rejection by the Basic gateway, for absent credentials as for
\* credentials that fail validation, is the same response: status 401 with
\* WWW-Authenticate: Basic realm="Restricted"; the next handler is not
\* invoked.
C10_BasicRejectionChallenges ==
    (last.handler = "BasicAuthMiddleware" /\ ~(last.enabled => BasicCredentialsMatch)) =>
        /\ last.resp.next = 0
        /\ ClientView(last.resp) =
              [status |-> StatusUnauthorized, text |-> "Unauthorized",
               ctype |-> "text/plain; charset=utf-8",
               challenge |-> "Basic realm=\"Restricted\"",
               token |-> EmptyStr, username |-> <<>>]

\* C10 witness: credentials were supplied, failed validation, and the request
\* was rejected with the challenge.
C10_Witness ==
    /\ last.handler = "BasicAuthMiddleware"
    /\ last.enabled
    /\ last.req.auth.ok
    /\ ~BasicCredentialsMatch
    /\ last.resp.status = StatusUnauthorized
    /\ last.resp.challenge = "Basic realm=\"Restricted\""

\* C11: HandleLogin gives every request exactly one outcome, decided in this
\* order: 405 when the method is not POST; else 400 when the body does not
\* decode into credentials; else 401 when the decoded credentials do not
\* match the configured ones; else 500 when signing fails; else 200 with a
\* token.  A token is in the response only in the 200 case.
C11_LoginOutcomeOrder ==
    last.handler = "HandleLogin" =>
        LET r == last.req
            resp == last.resp
            decoded == [Username |-> JSONString(r.body.Username, 1),
                        Password |-> JSONString(r.body.Password, 1)]
            matches == /\ decoded.Username = GetCredentials.Username
                       /\ decoded.Password = GetCredentials.Password
            signed == ~GenerateJWT(decoded.Username, last.at, now).err
            outcome == CASE r.method # "POST" -> StatusMethodNotAllowed
                         [] r.method = "POST" /\ ~r.body.ok -> StatusBadRequest
                         [] r.method = "POST" /\ r.body.ok /\ ~matches -> StatusUnauthorized
                         [] r.method = "POST" /\ r.body.ok /\ matches /\ ~signed
                               -> StatusInternalServerError
                         [] OTHER -> StatusOK
        IN /\ resp.status = outcome
           /\ resp.next = 0
           /\ (resp.token # EmptyStr) <=> (resp.status = StatusOK)
           /\ resp.status = StatusOK =>
                 /\ resp.token.kind = "jwt"
                 /\ resp.token.claims.username = decoded.Username

\* C11 witness: a GET that carries the configured credentials was answered
\* 405 with no token, and the client holds none.
C11_Witness ==
    /\ last.handler = "HandleLogin"
    /\ last.req.method = "GET"
    /\ last.req.body.ok
    /\ last.req.body.Username = GetCredentials.Username
    /\ last.req.body.Password = GetCredentials.Password
    /\ last.resp.status = StatusMethodNotAllowed
    /\ last.resp.token = EmptyStr
    /\ ~held.has

\* What the client can see of HandleLogin's answer to credentials that do
\* not match
LoginRejection ==
    [status |-> StatusUnauthorized, text |-> "Invalid credentials",
     ctype |-> "text/plain; charset=utf-8", challenge |-> "",
     token |-> EmptyStr, username |-> <<>>]

\* The login attempt of the exchange failed to match the configured
\* credentials in the username (which = 1) or in the password (which = 2).
LoginMismatch(which) ==
    /\ last.handler = "HandleLogin"
    /\ last.req.method = "POST"
    /\ last.req.body.ok
    /\ IF which = 1
       THEN JSONString(last.req.body.Username, 1) # GetCredentials.Username
       ELSE JSONString(last.req.body.Password, 1) # GetCredentials.Password

\* C12: every login attempt that fails validation, whether the username, the
\* password or both are wrong, gets the same response as far as the client
\* can see it (status, headers, body): any two such responses are identical.
C12_LoginFailureUndifferentiated ==
    (LoginMismatch(1) \/ LoginMismatch(2)) => ClientView(last.resp) = LoginRejection

\* C12 witness: an attempt with the right password under a wrong username
\* got that response.
C12_Witness ==
    /\ LoginMismatch(1)
    /\ ~LoginMismatch(2)
    /\ ClientView(last.resp) = LoginRejection

\* The Authorization header of the exchange's request is "Bearer " followed
\* by a token that verifies at the time the request was handled.
ValidBearerHeader ==
    /\ HasBearerPrefix(last.req.auth)
    /\ TokenVerifies(last.req.auth.tok, last.at)

\* C13: /me answers 200 with the username embedded in the token if and only
\* if the request presents a valid bearer token; in every other case it
\* answers 401 and returns no username.
C13_MeIffValidBearer ==
    last.handler = "HandleMe" =>
        IF ValidBearerHeader
        THEN /\ last.resp.status = StatusOK
             /\ last.resp.username = last.req.auth.tok.claims.username
        ELSE /\ last.resp.status = StatusUnauthorized
             /\ last.resp.username = <<>>
             /\ last.resp.ctype # "application/json"

\* C13 witness: /me answered 200 with the username of the token, which is
\* not the configured username.
C13_Witness ==
    /\ last.handler = "HandleMe"
    /\ ValidBearerHeader
    /\ last.resp.status = StatusOK
    /\ last.resp.username = last.req.auth.tok.claims.username
    /\ last.resp.username # GetCredentials.Username

\* C14: auth-check always answers with a success status, never 401, and the
\* isAuthenticated it reports is true if and only if the Authorization header
\* carries a Bearer token that verifies.
C14_AuthCheckNeverRejects ==
    last.handler = "HandleAuthCheck" =>
        /\ last.resp.status = StatusOK
        /\ last.resp.isAuthenticated <=> ValidBearerHeader

\* C14 witness: auth-check answered 200 with isAuthenticated false to a
\* Bearer token whose signature verifies and which has expired.
C14_Witness ==
    /\ last.handler = "HandleAuthCheck"
    /\ HasBearerPrefix(last.req.auth)
    /\ SignatureVerifies(last.req.auth.tok)
    /\ last.at >= last.req.auth.tok.claims.exp
    /\ last.resp.status = StatusOK
    /\ ~last.resp.isAuthenticated

\* The listed public prefixes, as a set
ListedPrefixes == {authEndpoints[k] : k \in 1 .. Len(authEndpoints)}

\* path is prefix itself, or prefix followed by "/" and anything.
MatchedBy(path, prefix) ==
    \/ path = prefix
    \/ /\ Len(path) > Len(prefix)
       /\ \A i \in 1 .. Len(prefix) : path[i] = prefix[i]
       /\ path[Len(prefix) + 1] = "/"

\* path is prefix followed by at least one character, the first of them not "/".
ExtendsPastBoundary(path, prefix) ==
    /\ Len(path) > Len(prefix)
    /\ \A i \in 1 .. Len(prefix) : path[i] = prefix[i]
    /\ path[Len(prefix) + 1] # "/"

\* path lies under "/static/".
UnderStatic(path) ==
    /\ Len(path) >= Len(StaticPrefix)
    /\ \A i \in 1 .. Len(StaticPrefix) : path[i] = StaticPrefix[i]

\* C15: isPublic(path) is true if and only if the path equals a listed
\* prefix, or starts with a listed prefix followed by "/", or lies under
\* "/static/"; a path that extends a listed prefix past it by a character
\* other than "/" is public only through another prefix or "/static/"; the
\* path is taken as it is, ".." and trailing slashes included.
C15_PublicPathClassifier ==
    last.handler = "isPublic" =>
        LET path == last.req.path
        IN /\ last.resp.ret <=>
                  \/ \E prefix \in ListedPrefixes : MatchedBy(path, prefix)
                  \/ UnderStatic(path)
           /\ \A prefix \in ListedPrefixes :
                 (ExtendsPastBoundary(path, prefix) /\ last.resp.ret) =>
                     \/ \E other \in ListedPrefixes \ {prefix} : MatchedBy(path, other)
                     \/ UnderStatic(path)
           /\ path = PathApiExtra => ~last.resp.ret
           /\ path = PathDotDotIn => ~last.resp.ret
           /\ path = PathDotDotOut => last.resp.ret
           /\ path = PathStaticDir => ~last.resp.ret
           /\ path = PathHealth \o <<"/">> => last.resp.ret

\* C15 witness: "/apiextra", which extends the listed "/api" by characters
\* other than "/", was classified and is not public.
C15_Witness ==
    /\ last.handler = "isPublic"
    /\ last.req.path = PathApiExtra
    /\ ExtendsPastBoundary(PathApiExtra, <<"/","a","p","i">>)
    /\ ~last.resp.ret

\* The request of the exchange carries, in its token query parameter, a
\* token that verifies at the time the request was handled.
ValidQueryToken ==
    /\ last.req.query # EmptyStr
    /\ TokenVerifies(last.req.query, last.at)

\* C16, as stated: for a non-public request with auth enabled, whenever the
\* Authorization header yields no non-empty bearer token (it is missing, has
\* another scheme, or is "Bearer " followed by nothing), the gateway uses the
\* token query parameter: with a valid token there the request is forwarded.
C16_QueryFallback ==
    (/\ BearerGuarded
     /\ ~HasBearerPrefix(last.req.auth) \/ last.req.auth.tok = EmptyStr
     /\ ValidQueryToken)
        => last.resp.next = 1

\* C16, amended: for a non-public request with auth enabled, whenever the
\* Authorization header does not start with "Bearer " (it is missing or has
\* another scheme), the token query parameter decides: the request is
\* forwarded if and only if the parameter holds a token that verifies.  A
\* header that is "Bearer " followed by nothing is answered 401 with no
\* verification, whatever the query parameter holds.
C16_QueryFallbackWithoutBearerPrefix ==
    BearerGuarded =>
        /\ ~HasBearerPrefix(last.req.auth) =>
              /\ (last.resp.next = 1) <=> ValidQueryToken
              /\ last.resp.parses = IF last.req.query # EmptyStr THEN 1 ELSE 0
        /\ (HasBearerPrefix(last.req.auth) /\ last.req.auth.tok = EmptyStr) =>
              /\ last.resp.next = 0
              /\ last.resp.status = StatusUnauthorized
              /\ last.resp.parses = 0

\* C16 witness: a request whose Authorization header has another scheme and
\* whose query parameter holds a valid token was forwarded.
C16_Witness ==
    /\ BearerGuarded
    /\ last.req.auth.scheme \notin {"", "Bearer "}
    /\ ValidQueryToken
    /\ last.resp.next = 1

\* The request of the exchange carries both an Authorization: Bearer header
\* with a token and a token query parameter.
CarriesHeaderAndQueryToken ==
    /\ HasBearerPrefix(last.req.auth)
    /\ last.req.auth.tok # EmptyStr
    /\ last.req.query # EmptyStr

\* C17: when a request to the Bearer gateway (non-public path, auth enabled)
\* carries both a Bearer header token and a token query parameter, the header
\* token alone decides: the request is forwarded if and only if the header
\* token verifies, and is answered 401 otherwise, whatever the query token
\* is; one verification is performed, and no request gets more than one.
C17_HeaderTokenDecides ==
    BearerGuarded =>
        /\ last.resp.parses \in {0, 1}
        /\ CarriesHeaderAndQueryToken =>
              /\ last.resp.parses = 1
              /\ (last.resp.next = 1) <=> TokenVerifies(last.req.auth.tok, last.at)
              /\ (last.resp.next = 0) <=> (last.resp.status = StatusUnauthorized)

\* C17 witness: a request with a header token that does not verify and a
\* valid query token was answered 401.
C17_Witness ==
    /\ BearerGuarded
    /\ CarriesHeaderAndQueryToken
    /\ ~TokenVerifies(last.req.auth.tok, last.at)
    /\ ValidQueryToken
    /\ last.resp.status = StatusUnauthorized
    /\ last.resp.next = 0

\* C17, the other way round: a request with a valid header token and a query
\* token that does not verify was forwarded.
C17_WitnessForwarded ==
    /\ BearerGuarded
    /\ CarriesHeaderAndQueryToken
    /\ TokenVerifies(last.req.auth.tok, last.at)
    /\ ~TokenVerifies(last.req.query, last.at)
    /\ last.resp.next = 1

\* What the client can see of the answer to a token that fails verification
TokenRejection ==
    [status |-> StatusUnauthorized, text |-> "Invalid or expired token",
     ctype |-> "text/plain; charset=utf-8", challenge |-> "",
     token |-> EmptyStr, username |-> <<>>]

\* The exchange presented a token string, to the Bearer gateway on a guarded
\* path or to /me, and the token does not verify.
PresentedTokenFails ==
    /\ \/ BearerGuarded /\ ExtractToken(last.req) # EmptyStr
       \/ last.handler = "HandleMe" /\ HasBearerPrefix(last.req.auth)
    /\ ~TokenVerifies(PresentedToken, last.at)

\* Why a token does not verify
FailureReason(tok, t) ==
    IF tok.kind # "jwt" \/ tok.sig.cut # 0 THEN "malformed"
    ELSE IF ~SignatureVerifies(tok) THEN "bad signature"
    ELSE IF t >= tok.claims.exp THEN "expired"
    ELSE "none"

\* C18: whatever the reason a presented token fails verification (malformed,
\* bad signature, expired), the Bearer gateway and /me give the client the
\* same response, status 401 with one fixed body: any two such responses
\* are identical.
C18_TokenFailureUndifferentiated ==
    PresentedTokenFails =>
        /\ ClientView(last.resp) = TokenRejection
        /\ last.resp.next = 0

\* C18 witness: the Bearer gateway gave that response to a token that is
\* well formed and signed under the process secret, and has expired.
C18_Witness ==
    /\ BearerGuarded
    /\ PresentedTokenFails
    /\ FailureReason(PresentedToken, last.at) = "expired"
    /\ ClientView(last.resp) = TokenRejection

\* C18, the other reasons, as /me met them
C18_WitnessMalformed ==
    /\ PresentedTokenFails
    /\ last.handler = "HandleMe"
    /\ FailureReason(PresentedToken, last.at) = "malformed"

C18_WitnessBadSignature ==
    /\ PresentedTokenFails
    /\ last.handler = "HandleMe"
    /\ FailureReason(PresentedToken, last.at) = "bad signature"

\* The exchange ended in a rejection: a 401 from one of the gateways, from
\* the login or from /me.
Rejected ==
    /\ last.handler \in {"JWTMiddleware", "BasicAuthMiddleware", "HandleLogin", "HandleMe"}
    /\ last.resp.status = StatusUnauthorized

\* The log entries the exchange emitted
LogEntries == {last.resp.log[i] : i \in 1 .. Len(last.resp.log)}

\* C19: every rejection (Bearer gateway missing or invalid token, Basic
\* gateway missing or invalid credentials, failed login, /me 401) emits a log
\* entry that contains the request path and the remote address, and no log
\* entry contains any part of the supplied username or password, or of the
\* token.
C19_RejectionsLoggedWithoutSecrets ==
    /\ Rejected =>
          \E e \in LogEntries :
              /\ e.path # <<>> /\ e.path = last.req.path
              /\ e.remote # "" /\ e.remote = last.req.remote
    /\ \A e \in LogEntries : e.user = <<>>

\* What an exchange came to: whether the next handler ran, and the response
Outcome(exchange) ==
    [next |-> exchange.resp.next, status |-> exchange.resp.status,
     text |-> exchange.resp.text, ctype |-> exchange.resp.ctype,
     challenge |-> exchange.resp.challenge, token |-> exchange.resp.token,
     username |-> exchange.resp.username,
     isAuthenticated |-> exchange.resp.isAuthenticated,
     authEnabled |-> exchange.resp.authEnabled]

\* The exchange and the one before it reached the same handler with the same
\* request, read the same flag and the same clock; the secret never changes.
SameRequestFlagSecretClock ==
    /\ last # Idle
    /\ prev.ex # Idle
    /\ prev.ex.handler = last.handler
    /\ prev.ex.req = last.req
    /\ prev.ex.enabled = last.enabled
    /\ prev.ex.at = last.at

\* The exchange presents the token of the latest login, in a Bearer header,
\* before the token's expiresAt.
IssuedTokenPresentedInTime ==
    /\ last.handler \in {"JWTMiddleware", "HandleMe", "HandleAuthCheck"}
    /\ held.has
    /\ last.req.auth = BearerHeader("Bearer ", held.tok)
    /\ last.at < held.tok.claims.exp

\* An issued token is accepted until its expiresAt, and /me returns the
\* username embedded in it.
IssuedTokenStaysGood ==
    IssuedTokenPresentedInTime =>
        /\ TokenAccepted
        /\ last.handler = "HandleMe" =>
              /\ last.resp.username = held.tok.claims.username
              /\ last.resp.username = held.user

C20_WitnessCompared ==
    /\ SameRequestFlagSecretClock
    /\ last.handler = "JWTMiddleware"
    /\ last.enabled
    /\ prev.creds # GetCredentials
    /\ Outcome(last) = Outcome(prev.ex)

\* The exchange was answered by one of the two gateways.
GatewayExchange == last.handler \in {"JWTMiddleware", "BasicAuthMiddleware"}

\* The request of the gateway exchange carries credentials the gateway
\* accepts: a token that verifies, or the configured username and password.
CarriesValidCredentials ==
    IF last.handler = "JWTMiddleware"
    THEN ExtractToken(last.req) # EmptyStr
         /\ TokenVerifies(ExtractToken(last.req), last.at)
    ELSE BasicCredentialsMatch

\* The gateway of the exchange has to decide on credentials when auth is
\* enabled: every path for the Basic gateway, non-public ones for the Bearer.
GuardedWhenEnabled ==
    last.handler = "BasicAuthMiddleware" \/ ~isPublic(last.req.path)

\* C21: each gateway reads the flag anew, once, for every request: while the
\* flag is "false" every request handled is forwarded; while it is enabled
\* (unset or "true") every non-public request without valid credentials is
\* answered 401; and the decision of a request follows the one value read
\* for it, which is the value configured when the request is handled.
C21_FlagReadPerRequest ==
    GatewayExchange =>
        /\ IF last.handler = "JWTMiddleware"
           THEN last.enabled = JWTAuthEnabled(envAuth)
           ELSE last.enabled \in env_IsBool(envAuth, TRUE)
        /\ envAuth = "false" => last.resp.next = 1 /\ last.resp.status = 0
        /\ (envAuth \in {"", "true"} /\ GuardedWhenEnabled /\ ~CarriesValidCredentials)
              => Answered401
        /\ ~last.enabled => last.resp.next = 1
        /\ (last.enabled /\ GuardedWhenEnabled)
              => ((last.resp.next = 1) <=> CarriesValidCredentials)

\* C21 witness: a request was answered 401, the operator set the flag to
\* "false", and the same request, at the same clock reading, was forwarded.
C21_Witness ==
    /\ GatewayExchange
    /\ prev.ex.handler = last.handler
    /\ prev.ex.req = last.req
    /\ prev.ex.enabled
    /\ prev.ex.resp.status = StatusUnauthorized
    /\ envAuth = "false"
    /\ ~CarriesValidCredentials
    /\ last.resp.next = 1

\* C21, the way back: a request was forwarded while the flag was "false", the
\* operator enabled auth again, and the same request was answered 401.
C21_WitnessBack ==
    /\ GatewayExchange
    /\ prev.ex.handler = last.handler
    /\ prev.ex.req = last.req
    /\ ~prev.ex.enabled
    /\ prev.ex.resp.next = 1
    /\ envAuth \in {"", "true"}
    /\ Answered401

\* C22: validateCredentials does the same work whatever the outcome: every
\* call compares the username and then the password, the password comparison
\* running whether or not the username matched, and the passes each
\* comparison makes depend neither on where the first mismatching byte is nor
\* on the length of what was supplied (they are those the configured value
\* takes).
C22_TimingSafeValidation ==
    last.handler = "validateCredentials" =>
        LET work == last.resp.work
        IN /\ Len(work) = 2
           /\ work[1].field = "username"
           /\ work[1].loop = Len(GetCredentials.Username)
           /\ work[2].field = "password"
           /\ work[2].loop = Len(GetCredentials.Password)

\* The listed prefixes that are not under "/api"
PrefixesOutsideApi ==
    {<<"/","i","m","a","g","e","s","/","m","o","v","i","e","s","/","M","e","d","i","a","C","o","v","e","r">>,
     <<"/","i","m","a","g","e","s","/","s","e","r","i","e","s","/","M","e","d","i","a","C","o","v","e","r">>,
     <<"/","M","e","d","i","a","C","o","v","e","r">>}

\* path is "/api" or starts with "/api/".
UnderApi(path) == MatchedBy(path, <<"/","a","p","i">>)

\* C24: every path equal to "/api" or starting with "/api/" is classified
\* public, listed or not, and the Bearer gateway forwards a request to it
\* with no token check even when auth is enabled; with auth enabled the
\* gateway answers 401 only on paths outside "/api", "/static/",
\* "/images/movies/MediaCover", "/images/series/MediaCover" and "/MediaCover".
C24_WholeApiPublic ==
    LET path == last.req.path
    IN /\ (last.handler = "isPublic" /\ UnderApi(path)) => last.resp.ret
       /\ (last.handler = "JWTMiddleware" /\ UnderApi(path)) =>
             /\ last.resp.next = 1
             /\ last.resp.status = 0
             /\ last.resp.parses = 0
       /\ (last.handler = "JWTMiddleware" /\ last.resp.status = StatusUnauthorized) =>
             /\ ~UnderApi(path)
             /\ ~UnderStatic(path)
             /\ \A prefix \in PrefixesOutsideApi : ~MatchedBy(path, prefix)
       /\ (last.handler = "JWTMiddleware" /\ last.enabled /\ last.resp.next = 1) =>
             \/ UnderApi(path)
             \/ UnderStatic(path)
             \/ \E prefix \in PrefixesOutsideApi : MatchedBy(path, prefix)

\* C24 witness: with auth enabled, a request with no token for "/api/delete",
\* which is not in the list, was forwarded.
C24_Witness ==
    /\ last.handler = "JWTMiddleware"
    /\ last.req.path = PathApiDelete
    /\ PathApiDelete \notin ListedPrefixes
    /\ JWTAuthEnabled(envAuth)
    /\ last.req.auth = NoHeader
    /\ last.req.query = EmptyStr
    /\ last.resp.next = 1

\* The Bearer gateway, at this moment, forwards the request of the exchange
\* when it is sent to the non-public path "/files".
GatewayWouldForward ==
    JWTMiddlewareServe([last.req EXCEPT !.path = PathFiles]).next = 1

\* C25: /me and auth-check decide from the Authorization header alone:
\* whenever the header carries no valid Bearer token, /me answers 401 and
\* auth-check reports isAuthenticated = false, whatever the flag is and
\* whatever the token query parameter holds, so also for requests the Bearer
\* gateway forwards.
C25_EndpointsReadHeaderOnly ==
    ~ValidBearerHeader =>
        /\ last.handler = "HandleMe" =>
              /\ last.resp.status = StatusUnauthorized
              /\ last.resp.username = <<>>
        /\ last.handler = "HandleAuthCheck" =>
              /\ last.resp.status = StatusOK
              /\ ~last.resp.isAuthenticated

\* C25 witness: with the flag "false", /me answered 401 to a request that has
\* no Authorization header and a valid token in the query parameter, a
\* request the Bearer gateway forwards.
C25_Witness ==
    /\ last.handler = "HandleMe"
    /\ envAuth = "false"
    /\ last.req.auth = NoHeader
    /\ ValidQueryToken
    /\ GatewayWouldForward
    /\ last.resp.status = StatusUnauthorized

\* C25, auth enabled: auth-check reported isAuthenticated = false for a
\* request the Bearer gateway forwards on its query token.
C25_WitnessAuthCheck ==
    /\ last.handler = "HandleAuthCheck"
    /\ JWTAuthEnabled(envAuth)
    /\ last.req.auth = NoHeader
    /\ ValidQueryToken
    /\ GatewayWouldForward
    /\ ~last.resp.isAuthenticated

\* C26: the authEnabled field of every auth-check response is true, whatever
\* the configured flag is.
C26_AuthEnabledAlwaysTrue ==
    last.handler = "HandleAuthCheck" =>
        /\ last.resp.status = StatusOK
        /\ last.resp.authEnabled = TRUE

\* C26 witness: with the flag "false", which makes both gateways forward
\* everything, auth-check reported authEnabled = true.
C26_Witness ==
    /\ last.handler = "HandleAuthCheck"
    /\ envAuth = "false"
    /\ ~JWTAuthEnabled(envAuth)
    /\ env_IsBool(envAuth, TRUE) = {FALSE}
    /\ last.resp.authEnabled

\* C27: the signing secret is never empty: no token is issued with the empty
\* key and no presented token is accepted under it, so that a token the
\* Bearer gateway or /me accepts was signed by a party that knows a
\* configured secret.
C27_SecretNeverEmpty ==
    /\ jwtSecret # ""
    /\ (last.handler = "HandleLogin" /\ last.resp.status = StatusOK)
          => last.resp.token.sig.key # ""
    /\ ((BearerGuarded \/ last.handler = "HandleMe") /\ TokenAccepted)
          => PresentedToken.sig.key # ""

\* C28: no operation of the subsystem writes the configuration: a step in
\* which a handler answers a request leaves the flag and the configured
\* username and password as they were, and the signing secret is never
\* changed by any step, so that every issue and every verification of a
\* process use the same secret.
C28_ConfigurationOnlyRead ==
    [][/\ jwtSecret' = jwtSecret
       /\ (last' # last /\ last' # Idle) =>
             UNCHANGED <<envAuth, envUser, envPass>>]_vars

\* C28 witness: a token issued by a login was verified and accepted by /me
\* under the secret it was signed with, the secret the process started with.
C28_Witness ==
    /\ last.handler = "HandleMe"
    /\ held.has
    /\ last.req.auth = BearerHeader("Bearer ", held.tok)
    /\ last.resp.status = StatusOK
    /\ held.tok.sig.key = jwtSecret

\* C29: after any sequence of select, deselect, select-all, page change,
\* search or filter change, stats-card click, refresh and fetch completion,
\* successful or failed, every path in selectedFiles is the file_path of a
\* record in records: the selection is cleared whenever the list of records
\* is replaced or emptied.
C29_SelectionWithinRecords ==
    bulkDelete.stage = "none" => selectedFiles \subseteq records

\* C30: when a confirmed bulk delete finishes and any part of it failed (a
\* request threw, the server answered success = false, or it returned errors
\* for some files), the error is set and shown, and the records the server
\* did not delete are still displayed; bulkActionLoading is false after
\* every completion.
C30_BulkDeleteReportsFailure ==
    Settled =>
        /\ ~bulkActionLoading
        /\ bulkDelete.failed =>
              /\ error # Null
              /\ bulkActionDialogOpen
              /\ (bulkDelete.shown \ bulkDelete.deleted) \subseteq records

====
